---- MODULE Spec2Model ----
(***************************************************************************)
(* Request-authorization subsystem of the text-to-speech application:      *)
(* the CSRF token services, the server gates in front of the synthesis     *)
(* provider, and the client-side sliding-window rate limiters.             *)
(*                                                                         *)
(* The repository holds several alternative variants of the same server    *)
(* and client.  A behaviour of a specification below is a run of ONE of    *)
(* them; the variable "variant" says which, and is fixed by Init.          *)
(*                                                                         *)
(* Time is the value of Date.now() in milliseconds, counted from the       *)
(* start of the run.  The clock only moves forward, and jumps between the  *)
(* instants of a finite set that holds both sides of every deadline.       *)
(*                                                                         *)
(* crypto.randomBytes(32) is modelled as a fresh value: the n-th token     *)
(* issued is the number n.  The token 0 and the session "" stand for a     *)
(* request that carries no token / no session identifier (falsy in JS).    *)
(***************************************************************************)
EXTENDS Integers, Sequences, FiniteSets, Bags, TLC

\* ------------------------------------------------------------------ bounds
MaxTokens == 2
MaxInflight == 2
MaxFetches == 2
MaxCalls == 2
MaxKeys == 2

\* The pieces a text given to a sanitizer is made of.
MaxPieces == 3
\* the POST requests one page sends
MaxPosts == 2

\* -------------------------------------------------------- program constants
\* SecurityUtils.tokenExpiry = 60 * 60 * 1000
tokenExpiry == 3600000
\* secure-server.js: setTimeout(() => csrfTokens.delete(token), 60 * 60 * 1000)
csrfTimerMs == 3600000
\* the text limit of validateInput.text and of server.js
MaxTextLength == 5000
\* speeds are counted in hundredths: 0.25, 4.0 and the default 1.0
SpeedMin == 25
SpeedMax == 400
DefaultSpeed == 100
\* validateInput.apiKey: apiKey.length < 35 || apiKey.length > 45
ApiKeyMinLength == 35
ApiKeyMaxLength == 45
\* RateLimiter: constructor(maxRequests = 10, windowMs = 60000)
maxRequests == 10
windowMs == 60000
\* RateLimitTracker: this.maxRequests = 10, this.timeWindow = 60 * 1000
trackerMaxRequests == 10
timeWindow == 60000
\* getTimeUntilReset: Math.ceil(timeUntilReset / 1000)
MsPerSecond == 1000
\* security-fixes.js SecureApiKeyManager: 30 * 60 * 1000
vaultExpiry == 1800000

Sessions == {"sessA", "sessB"}

VARIABLES
    variant,      \* which program variant runs
    nodeEnv,      \* process.env.NODE_ENV of the server process
    pure,         \* the argument a sanitizer or validator is called with, and what it returned
    client,       \* SecureTextToSpeechApp: this.csrfToken, this.sessionId, and the session cookie
    now,          \* Date.now()
    nextToken,    \* the next value crypto.randomBytes will return
    csrfTokens,   \* SecurityUtils.csrfTokens : Map token -> {sessionId, expiry, used}
    serverTokens, \* secure-server.js csrfTokens : Set of tokens
    timers,       \* secure-server.js: the tokens whose setTimeout callback has not run yet
    pending,      \* the handlers suspended in "await client.synthesizeSpeech(request)"
    issuedTo,     \* history: token -> session identifier of the request that obtained it
    issuedAt,     \* history: token -> time of issue
    okCount,      \* history: token -> number of successful validations
    swept,        \* history: token -> a token was issued, or the token was validated again, after its success
    last,         \* history: the last state-changing request and what became of it
    requests,     \* RateLimiter.requests / RateLimitTracker.requests : the timestamps held
    fetching,     \* the client's calls suspended in an await behind the admission
    admissions,   \* history: instant -> number of requests admitted at that instant
    rateLast,     \* history: the last call of a limiter and what it returned
    sessionStorage, \* the vault's entries of window.sessionStorage: the blob and the raw key
    encryptionKey,  \* security-fixes.js SecureApiKeyManager.encryptionKey (0 is null)
    indexedDB,      \* the database TTSSecureStorage and the key under 'encryption-key'
    vaultTimers,    \* security-fixes.js: the save times whose setTimeout callback has not run yet
    calls,          \* the vault's async methods suspended in an await
    nextKey,        \* the next key crypto.subtle.generateKey will return
    saved,          \* history: the last save that completed
    expiredSeen,    \* history: a load has answered null for an expired blob
    vaultLast       \* history: the last method of the vault that ended, and how

vars ==
    <<variant, nodeEnv, pure, client, now, nextToken, csrfTokens, serverTokens, timers, pending,
      issuedTo, issuedAt, okCount, swept, last, requests, fetching, admissions, rateLast,
      sessionStorage, encryptionKey, indexedDB, vaultTimers, calls, nextKey, saved,
      expiredSeen, vaultLast>>

gateVars == <<serverTokens, timers, pending>>

csrfVars ==
    <<nextToken, csrfTokens, serverTokens, timers, pending, issuedTo, issuedAt, okCount, swept, last>>

rateVars == <<requests, fetching, admissions, rateLast>>

vaultVars ==
    <<sessionStorage, encryptionKey, indexedDB, vaultTimers, calls, nextKey, saved,
      expiredSeen, vaultLast>>

\* ------------------------------------------------------------------ helpers
Min(S) == CHOOSE x \in S : \A y \in S : x <= y

Put(f, k, v) == [x \in DOMAIN f \cup {k} |-> IF x = k THEN v ELSE f[x]]

Remove(f, k) == [x \in DOMAIN f \ {k} |-> f[x]]

\* The instants the clock visits: the issue of a token, its deadline (the last
\* instant at which it is not expired) and the instant behind the deadline.
CsrfInstants == {0, tokenExpiry, tokenExpiry + 1}

\* SecureTextToSpeechApp after its constructor: this.csrfToken = null (0),
\* this.sessionId = null ("").  cookie is req.sessionID of this browser's
\* requests: "" on a server without session middleware, undecided before the
\* first request.  posts counts the POST requests that were answered.
NoClient ==
    [pc |-> "new", csrfToken |-> 0, sessionId |-> "", cookie |-> "undecided", posts |-> 0]

NoRequest ==
    [op |-> "none", result |-> "none", status |-> 0, forwarded |-> FALSE,
     foreign |-> FALSE, late |-> FALSE, usedBefore |-> FALSE, sweptBefore |-> FALSE,
     consumed |-> FALSE, body |-> <<>>, input |-> "", fresh |-> FALSE,
     held |-> FALSE, pastExpiry |-> FALSE, otherSession |-> FALSE]

\* ------------------------------------------------------------- JS values
\* A value of a JSON body: a string is the sequence of its characters, a
\* number is counted in hundredths.
Str(chars) == [t |-> "string", s |-> chars, n |-> 0]

Num(hundredths) == [t |-> "number", s |-> <<>>, n |-> hundredths]

Undefined == [t |-> "undefined", s |-> <<>>, n |-> 0]

Null == [t |-> "null", s |-> <<>>, n |-> 0]

\* !v
Falsy(v) ==
    \/ v.t \in {"undefined", "null"}
    \/ v.t = "string" /\ v.s = <<>>
    \/ v.t = "number" /\ v.n = 0

Rep(c, n) == [i \in 1..n |-> c]

\* The characters \w of a regular expression, and those \s that trim() removes.
WordChars ==
    {"a", "b", "c", "h", "i", "j", "n", "o", "p", "r", "s", "t", "v", "x", "z",
     "A", "I", "S", "0", "7", "_"}

WhiteSpace == {" ", "\n", "\t"}

\* The /i flag: a character compared without case.
Lower(c) == CASE c = "A" -> "a" [] c = "I" -> "i" [] c = "S" -> "s" [] OTHER -> c

\* The pattern (of lower-case characters) matches s at position i, ignoring case.
MatchAt(s, i, pat) ==
    /\ i + Len(pat) - 1 <= Len(s)
    /\ \A k \in 1..Len(pat) : Lower(s[i + k - 1]) = pat[k]

\* <script\b : the opening of a script element; \b holds before any character
\* that is not a word character (at the end of the string nothing can follow).
IsScriptOpen(s, i) ==
    /\ MatchAt(s, i, <<"<", "s", "c", "r", "i", "p", "t">>)
    /\ i + 7 <= Len(s)
    /\ s[i + 7] \notin WordChars

IsScriptClose(s, j) == MatchAt(s, j, <<"<", "/", "s", "c", "r", "i", "p", "t", ">">>)

\* .replace(/<script\b[^<]*(?:(?!<\/script>)<[^<]*)*<\/script>/gi, '')
\* A match runs from the leftmost opening to the first closing tag behind it:
\* every "<" in between that does not start a closing tag is taken by the group.
\* Without a closing tag the opening, and every later one, matches nothing.
RECURSIVE StripScripts(_)
StripScripts(s) ==
    LET opens == {i \in 1..Len(s) : IsScriptOpen(s, i)} IN
    IF opens = {} THEN s
    ELSE LET i == Min(opens)
             closes == {j \in (i + 7)..Len(s) : IsScriptClose(s, j)}
         IN  IF closes = {} THEN s
             ELSE SubSeq(s, 1, i - 1) \o StripScripts(SubSeq(s, Min(closes) + 9, Len(s)))

\* .replace(/<[^>]*>/g, '') : from the leftmost "<" to the first ">" behind it.
RECURSIVE StripTags(_)
StripTags(s) ==
    LET lts == {i \in 1..Len(s) : s[i] = "<"} IN
    IF lts = {} THEN s
    ELSE LET i == Min(lts)
             gts == {j \in (i + 1)..Len(s) : s[j] = ">"}
         IN  IF gts = {} THEN s
             ELSE SubSeq(s, 1, i - 1) \o StripTags(SubSeq(s, Min(gts) + 1, Len(s)))

\* .trim()
Trim(s) ==
    LET keep == {i \in 1..Len(s) : s[i] \notin WhiteSpace} IN
    IF keep = {} THEN <<>>
    ELSE SubSeq(s, Min(keep), CHOOSE i \in keep : \A j \in (i + 1)..Len(s) : s[j] \in WhiteSpace)

\* parseFloat(v): a number is itself; the strings of this model hold no digits.
parseFloat(v) == IF v.t = "number" THEN [nan |-> FALSE, n |-> v.n] ELSE [nan |-> TRUE, n |-> 0]

\* ------------------------------------------- secure-server.js: validateInput
\* validateInput.text(text): the error names the message of the code
\* ("required", "empty" after sanitization, "tooLong").
validateInputText(text) ==
    IF Falsy(text) \/ text.t # "string"
    THEN [valid |-> FALSE, error |-> "required", sanitized |-> <<>>]
    ELSE LET sanitized == Trim(StripTags(StripScripts(text.s))) IN
         IF Len(sanitized) = 0
         THEN [valid |-> FALSE, error |-> "empty", sanitized |-> <<>>]
         ELSE IF Len(sanitized) > MaxTextLength
         THEN [valid |-> FALSE, error |-> "tooLong", sanitized |-> <<>>]
         ELSE [valid |-> TRUE, error |-> "", sanitized |-> sanitized]

allowedVoices ==
    {"ja-JP-Neural2-B", "ja-JP-Neural2-C", "ja-JP-Neural2-D", "en-US-Neural2-F", "en-US-Neural2-D"}

validateInputVoice(voice) == voice \in allowedVoices

validateInputSpeed(speed) ==
    LET numSpeed == parseFloat(speed) IN
    ~(numSpeed.nan \/ numSpeed.n < SpeedMin \/ numSpeed.n > SpeedMax)

ApiKeyChars == (WordChars \cup {"-"})

\* apiKey.startsWith('AIza')
StartsWithAIza(chars) == Len(chars) >= 4 /\ SubSeq(chars, 1, 4) = <<"A", "I", "z", "a">>

Verdict(valid, error) == [valid |-> valid, error |-> error]

\* validateInput.apiKey(apiKey): what it returns; the error names the message
\* of the code ("invalid", "format", "length", "characters").
validateInputApiKeyResult(apiKey) ==
    IF Falsy(apiKey) THEN Verdict(TRUE, "")
    ELSE IF apiKey.t # "string" THEN Verdict(FALSE, "invalid")
    ELSE IF ~StartsWithAIza(apiKey.s) THEN Verdict(FALSE, "format")
    ELSE IF Len(apiKey.s) < ApiKeyMinLength \/ Len(apiKey.s) > ApiKeyMaxLength
    THEN Verdict(FALSE, "length")
    ELSE IF \E i \in 1..Len(apiKey.s) : apiKey.s[i] \notin ApiKeyChars
    THEN Verdict(FALSE, "characters")
    ELSE Verdict(TRUE, "")

validateInputApiKey(apiKey) == validateInputApiKeyResult(apiKey).valid

\* ------------------------------------------------------- the request bodies
\* The bodies a client may send to POST /api/synthesize: the well-formed one,
\* and one body per way of being malformed.
DefaultVoice == "ja-JP-Neural2-B"

GoodBody ==
    [text |-> Str(<<"h", "i">>), voice |-> "", speed |-> Undefined, apiKey |-> Undefined]

Bodies ==
    [good      |-> GoodBody,
     script    |-> [GoodBody EXCEPT !.text =
                      Str(<<"<", "S", "c", "r", "i", "p", "t", ">", "x",
                            "<", "/", "s", "c", "r", "i", "p", "t", ">">>)],
     notString |-> [GoodBody EXCEPT !.text = Num(700)],
     len5000   |-> [GoodBody EXCEPT !.text = Str(Rep("a", MaxTextLength))],
     len5001   |-> [GoodBody EXCEPT !.text = Str(Rep("a", MaxTextLength + 1))],
     len6000   |-> [GoodBody EXCEPT !.text = Str(Rep("a", MaxTextLength + 1000))],
     tagged    |-> [GoodBody EXCEPT !.text =
                      Str(<<" ", "<", "b", ">">> \o Rep("a", MaxTextLength) \o <<"<", "/", "b", ">">>)],
     badVoice  |-> [GoodBody EXCEPT !.voice = "xx-XX-Standard-A"],
     speedLow  |-> [GoodBody EXCEPT !.speed = Num(SpeedMin - 1)],
     speedMax  |-> [GoodBody EXCEPT !.speed = Num(SpeedMax)],
     speedHigh |-> [GoodBody EXCEPT !.speed = Num(SpeedMax + 1)],
     speedText |-> [GoodBody EXCEPT !.speed = Str(<<"x">>)],
     goodKey   |-> [GoodBody EXCEPT !.apiKey = Str(<<"A", "I", "z", "a">> \o Rep("x", 35))],
     charKey   |-> [GoodBody EXCEPT !.apiKey = Str(<<"A", "I", "z", "a">> \o Rep("x", 34) \o <<"!">>)]]

BodyNames == DOMAIN Bodies

\* const { text, voice = 'ja-JP-Neural2-B', speed = 1.0, apiKey } = req.body
VoiceOf(b) == IF Bodies[b].voice = "" THEN DefaultVoice ELSE Bodies[b].voice

SpeedOf(b) == IF Bodies[b].speed.t = "undefined" THEN Num(DefaultSpeed) ELSE Bodies[b].speed

\* A plausible bug: the default of the voice is not applied, and a body
\* without a voice fails the allow-list.
secureValidation_NoDefault(b) ==
    IF ~validateInputText(Bodies[b].text).valid
    THEN "text:" \o validateInputText(Bodies[b].text).error
    ELSE IF ~validateInputVoice(Bodies[b].voice) THEN "voice"
    ELSE IF ~validateInputSpeed(SpeedOf(b)) THEN "speed"
    ELSE IF ~validateInputApiKey(Bodies[b].apiKey) THEN "apiKey"
    ELSE "ok"

\* What the handler of secure-server.js decides about a body once the CSRF
\* check has passed: the first failing validation, or "ok".
secureValidation(b) ==
    IF ~validateInputText(Bodies[b].text).valid
    THEN "text:" \o validateInputText(Bodies[b].text).error
    ELSE IF ~validateInputVoice(VoiceOf(b)) THEN "voice"
    ELSE IF ~validateInputSpeed(SpeedOf(b)) THEN "speed"
    ELSE IF ~validateInputApiKey(Bodies[b].apiKey) THEN "apiKey"
    ELSE "ok"

\* The request secure-server.js hands to ttsClient.synthesizeSpeech.  The
\* apiKey of the body is validated and then left out: the client is always
\* the server's own.
secureProviderRequest(b) ==
    [text |-> validateInputText(Bodies[b].text).sanitized,
     voice |-> VoiceOf(b),
     speakingRate |-> parseFloat(SpeedOf(b)),
     apiKey |-> Undefined]

\* ------------------------------------------------ server.js: its validation
\* speed < 0.25 || speed > 4.0 : a comparison with a string that is no number
\* is false on both sides.
plainSpeedRejected(speed) == speed.t = "number" /\ (speed.n < SpeedMin \/ speed.n > SpeedMax)

plainValidation(b) ==
    IF Falsy(Bodies[b].text) \/ Bodies[b].text.t # "string" THEN "text:required"
    ELSE IF Len(Bodies[b].text.s) > MaxTextLength THEN "text:tooLong"
    ELSE IF plainSpeedRejected(SpeedOf(b)) THEN "speed"
    ELSE "ok"

\* The request server.js hands to client.synthesizeSpeech; a truthy apiKey
\* goes into request.auth.
plainProviderRequest(b) ==
    [text |-> Bodies[b].text.s,
     voice |-> VoiceOf(b),
     speakingRate |-> IF SpeedOf(b).t = "number"
                      THEN [nan |-> FALSE, n |-> SpeedOf(b).n] ELSE [nan |-> TRUE, n |-> 0],
     apiKey |-> Bodies[b].apiKey]

\* ------------------------------------- the server with express-validator
\* .replace(/[\x00-\x1F\x7F-\x9F]/g, ''): of the characters of this model the
\* line feed and the tab are control characters.
ControlChars == {"\n", "\t"}

IsNoControlChar(c) == c \notin ControlChars

\* sanitizeText(text) of the server: tags and control characters are removed,
\* then the text is cut to 5000 characters and trimmed.
serverSanitizeText(text) ==
    IF text.t # "string" THEN <<>>
    ELSE LET withoutControl == SelectSeq(StripTags(text.s), IsNoControlChar)
         IN  Trim(SubSeq(withoutControl, 1, IF Len(withoutControl) < MaxTextLength
                                            THEN Len(withoutControl) ELSE MaxTextLength))

\* validateApiKey(apiKey) of the server: /^AIza[0-9A-Za-z_-]{35}$/
serverValidateApiKey(apiKey) ==
    /\ ~Falsy(apiKey)
    /\ apiKey.t = "string"
    /\ Len(apiKey.s) = 4 + ApiKeyMinLength
    /\ SubSeq(apiKey.s, 1, 4) = <<"A", "I", "z", "a">>
    /\ \A i \in 5..Len(apiKey.s) : apiKey.s[i] \in ApiKeyChars

\* synthesizeValidation: the rules of express-validator on the raw body.
\* optional() skips a field that is undefined.
synthesizeValidation(b) ==
    /\ Bodies[b].text.t = "string"
    /\ Len(Bodies[b].text.s) >= 1
    /\ Len(Bodies[b].text.s) <= MaxTextLength
    /\ Bodies[b].voice = "" \/ Bodies[b].voice \in allowedVoices
    /\ \/ Bodies[b].speed.t = "undefined"
       \/ /\ Bodies[b].speed.t = "number"
          /\ Bodies[b].speed.n >= SpeedMin
          /\ Bodies[b].speed.n <= SpeedMax
    /\ \/ Bodies[b].apiKey.t = "undefined"
       \/ Falsy(Bodies[b].apiKey)
       \/ serverValidateApiKey(Bodies[b].apiKey)

\* What the handler of this server decides about a body: the rules, then the
\* sanitized text must not be empty, then the apiKey once more.
improvedValidation(b) ==
    IF ~synthesizeValidation(b) THEN "invalid"
    ELSE IF serverSanitizeText(Bodies[b].text) = <<>> THEN "text:required"
    ELSE IF ~Falsy(Bodies[b].apiKey) /\ ~serverValidateApiKey(Bodies[b].apiKey) THEN "apiKey"
    ELSE "ok"

\* The request it hands to ttsClient.synthesizeSpeech: the custom apiKey is
\* not used.
improvedProviderRequest(b) ==
    [text |-> serverSanitizeText(Bodies[b].text),
     voice |-> VoiceOf(b),
     speakingRate |-> IF SpeedOf(b).t = "number"
                      THEN [nan |-> FALSE, n |-> SpeedOf(b).n] ELSE [nan |-> TRUE, n |-> 0],
     apiKey |-> Undefined]

\* ------------------------------------------- security-fixes.js: InputSanitizer
JavascriptColon == <<"j", "a", "v", "a", "s", "c", "r", "i", "p", "t", ":">>

\* .replace(/javascript:/gi, '') : every match of the string as it is, from
\* left to right; what the removals leave side by side is not looked at again.
RECURSIVE StripProtocol(_)
StripProtocol(s) ==
    LET at == {i \in 1..Len(s) : MatchAt(s, i, JavascriptColon)} IN
    IF at = {} THEN s
    ELSE SubSeq(s, 1, Min(at) - 1)
         \o StripProtocol(SubSeq(s, Min(at) + Len(JavascriptColon), Len(s)))

Quotes == {"'", "\""}

\* The first position from i on that holds no character of S.
SkipWhile(s, i, S) == Min({j \in i..(Len(s) + 1) : j = Len(s) + 1 \/ s[j] \notin S})

\* /on\w+\s*=\s*["'][^"']*["']/i at position i: the position of the closing
\* quote, or 0 without a match.  Each part takes all it can: what follows a
\* shorter run could not match the next part.
HandlerEnd(s, i) ==
    IF ~MatchAt(s, i, <<"o", "n">>) THEN 0
    ELSE LET w == SkipWhile(s, i + 2, WordChars) IN
         IF w = i + 2 THEN 0
         ELSE LET e == SkipWhile(s, w, WhiteSpace) IN
              IF e > Len(s) \/ s[e] # "=" THEN 0
              ELSE LET q == SkipWhile(s, e + 1, WhiteSpace) IN
                   IF q > Len(s) \/ s[q] \notin Quotes THEN 0
                   ELSE LET closes == {j \in (q + 1)..Len(s) : s[j] \in Quotes} IN
                        IF closes = {} THEN 0 ELSE Min(closes)

\* .replace(/on\w+\s*=\s*["'][^"']*["']/gi, '')
RECURSIVE StripHandlers(_)
StripHandlers(s) ==
    LET at == {i \in 1..Len(s) : HandlerEnd(s, i) # 0} IN
    IF at = {} THEN s
    ELSE SubSeq(s, 1, Min(at) - 1)
         \o StripHandlers(SubSeq(s, HandlerEnd(s, Min(at)) + 1, Len(s)))

\* .substring(0, n)
Substring0(s, n) == SubSeq(s, 1, IF Len(s) < n THEN Len(s) ELSE n)

\* InputSanitizer.sanitizeText(text)
sanitizeText(text) ==
    IF text.t # "string" THEN Str(<<>>)
    ELSE Str(Substring0(Trim(StripHandlers(StripProtocol(StripTags(StripScripts(text.s))))),
                        MaxTextLength))

\* InputSanitizer.validateApiKey(apiKey)
validateApiKey(apiKey) ==
    IF Falsy(apiKey) \/ apiKey.t # "string" THEN Verdict(FALSE, "invalid")
    ELSE IF ~StartsWithAIza(apiKey.s) THEN Verdict(FALSE, "format")
    ELSE IF Len(apiKey.s) < ApiKeyMinLength \/ Len(apiKey.s) > ApiKeyMaxLength
    THEN Verdict(FALSE, "length")
    ELSE IF \E i \in 1..Len(apiKey.s) : apiKey.s[i] \notin ApiKeyChars
    THEN Verdict(FALSE, "characters")
    ELSE Verdict(TRUE, "")

\* apiKey.includes(pair), for a pair of one character repeated
IncludesTwice(chars, c) ==
    \E i \in 1..(Len(chars) - 1) : chars[i] = c /\ chars[i + 1] = c

\* SecureTextToSpeechApp.validateApiKeyFormat(apiKey):
\* /^AIza[0-9A-Za-z_-]{35}$/, neither '..' nor '--', length 39
validateApiKeyFormat(apiKey) ==
    /\ ~Falsy(apiKey)
    /\ apiKey.t = "string"
    /\ Len(apiKey.s) = 4 + ApiKeyMinLength
    /\ StartsWithAIza(apiKey.s)
    /\ \A i \in 5..Len(apiKey.s) : apiKey.s[i] \in ApiKeyChars
    /\ ~IncludesTwice(apiKey.s, ".")
    /\ ~IncludesTwice(apiKey.s, "-")

\* ------------------------------------------- SecurityUtils.sanitizeInput
\* String(input) of a value that is neither null nor undefined: the numbers of
\* this model are 0 and 7.
StringOf(v) ==
    IF v.t = "string" THEN v.s ELSE IF v.n = 0 THEN <<"0">> ELSE <<"7">>

\* A text DOMPurify has nothing to remove from.
MarkupFree(chars) == \A i \in 1..Len(chars) : chars[i] # "<"

\* sanitizeInput(input) with the type 'text'.  DOMPurify returns a text
\* without markup as it is, and the characters of this model are none of
\* those the last replace() removes.
sanitizeInput(input) ==
    IF input.t \in {"null", "undefined"} THEN Str(<<>>)
    ELSE Str(Trim(StringOf(input)))

\* Both handlers, evaluated once per body.
secureDecision == [b \in BodyNames |-> secureValidation(b)]

plainDecision == [b \in BodyNames |-> plainValidation(b)]

improvedDecision == [b \in BodyNames |-> improvedValidation(b)]

providerRequest ==
    [v \in {"secure-server", "server", "improved-server"} |->
        [b \in BodyNames |->
            IF v = "secure-server" THEN secureProviderRequest(b)
            ELSE IF v = "server" THEN plainProviderRequest(b)
            ELSE improvedProviderRequest(b)]]

\* catch (error): the status sent for what the provider call came to.
\* "audio" is a response with audioContent, "noAudio" one without (the handler
\* throws an Error that has no code), "codeN" a rejection with error.code = N.
ProviderOutcomes == {"audio", "noAudio", "code3", "code7", "code8", "code14"}

responseStatus(outcome) ==
    CASE outcome = "audio" -> 200
      [] outcome = "code3" -> 400
      [] outcome = "code7" -> 403
      [] outcome = "code8" -> 429
      [] OTHER -> 500

\* The message of the response, named by what it says.  For error.code 8
\* secure-server.js says that the service is temporarily unavailable, the
\* other two servers that the request limit is reached.
responseMessage(v, outcome) ==
    CASE outcome = "code3" -> "invalid parameters"
      [] outcome = "code7" -> "Google Cloud authentication error"
      [] outcome = "code8" -> IF v = "secure-server" THEN "service temporarily unavailable"
                              ELSE "request limit reached"
      [] OTHER -> "speech generation failed"

\* The mode the server takes itself to run in: the server with
\* express-validator reads NODE_ENV once, with 'development' as its default;
\* the other two compare process.env.NODE_ENV with 'development'.
isDevelopment(v, env) ==
    IF v = "improved-server" THEN env \in {"development", "unset"} ELSE env = "development"

\* A plausible bug: the details of the error are sent in every mode.
handleError_AlwaysDetails(v, message, env) ==
    <<message>> \o (IF v = "server" THEN <<>> ELSE <<"timestamp">>) \o <<"details">>

\* handleError(res, error, message, statusCode): the fields of the JSON sent.
\* secure-server.js adds details and stack in development, the other two
\* details alone; server.js sends no timestamp.
handleError(v, message, env) ==
    <<message>>
    \o (IF v = "server" THEN <<>> ELSE <<"timestamp">>)
    \o (IF isDevelopment(v, env) THEN <<"details">> ELSE <<>>)
    \o (IF isDevelopment(v, env) /\ v = "secure-server" THEN <<"stack">> ELSE <<>>)

\* The body of the response behind the provider call: the audio, or the JSON
\* of the catch block.  server.js answers the codes 3, 7 and 8 without
\* handleError.
responseBody(v, outcome, env) ==
    IF outcome = "audio" THEN <<"audioContent">>
    ELSE IF v = "server" /\ outcome \in {"code3", "code7", "code8"}
    THEN <<responseMessage(v, outcome)>>
    ELSE handleError(v, responseMessage(v, outcome), env)

\* The body of a response 400 for a request that fails a validation.  The
\* server with express-validator adds the list of the failed rules in
\* development.
rejectionBody(v, result, env) ==
    IF v = "improved-server" /\ result = "invalid"
    THEN <<result>> \o (IF isDevelopment(v, env) THEN <<"details">> ELSE <<>>)
    ELSE <<result>>

\* ------------------------------------------------- SecurityUtils (CSRF part)
\* A plausible bug: the sweep drops the expired tokens and keeps the used ones.
cleanupExpiredTokens_KeepUsed(tbl, clock) ==
    [t \in {x \in DOMAIN tbl : ~(clock > tbl[x].expiry)} |-> tbl[t]]

\* cleanupExpiredTokens(): drop every token that is expired or used.
cleanupExpiredTokens(tbl, clock) ==
    [t \in {x \in DOMAIN tbl : ~(clock > tbl[x].expiry \/ tbl[x].used)} |-> tbl[t]]

\* generateCSRFToken(sessionId): the table after the call that returns `token`.
generateCSRFToken(tbl, token, sessionId, clock) ==
    cleanupExpiredTokens(
        Put(tbl, token, [sessionId |-> sessionId, expiry |-> clock + tokenExpiry, used |-> FALSE]),
        clock)

\* A plausible bug: the expiry is tested before the used flag.
validateCSRFTokenResult_ExpiryFirst(tbl, token, sessionId, clock) ==
    IF token \notin DOMAIN tbl THEN "UnknownToken"
    ELSE IF clock > tbl[token].expiry THEN "Expired"
    ELSE IF tbl[token].used THEN "AlreadyUsed"
    ELSE IF tbl[token].sessionId # sessionId THEN "SessionMismatch"
    ELSE "ok"

\* validateCSRFToken(token, sessionId): "ok" when it returns true, else the
\* reason of the Error it throws, in the order the code tests them.
validateCSRFTokenResult(tbl, token, sessionId, clock) ==
    IF token \notin DOMAIN tbl THEN "UnknownToken"
    ELSE IF tbl[token].used THEN "AlreadyUsed"
    ELSE IF clock > tbl[token].expiry THEN "Expired"
    ELSE IF tbl[token].sessionId # sessionId THEN "SessionMismatch"
    ELSE "ok"

\* A plausible bug: the token is never marked as used.
validateCSRFTokenTable_NoMark(tbl, token, sessionId, clock) ==
    LET r == validateCSRFTokenResult(tbl, token, sessionId, clock) IN
    IF r \in {"AlreadyUsed", "Expired"} THEN Remove(tbl, token) ELSE tbl

\* A plausible bug: a token presented with another session is deleted, like a
\* used or an expired one.
validateCSRFTokenTable_DropOnMismatch(tbl, token, sessionId, clock) ==
    LET r == validateCSRFTokenResult(tbl, token, sessionId, clock) IN
    IF r \in {"AlreadyUsed", "Expired", "SessionMismatch"} THEN Remove(tbl, token)
    ELSE IF r = "ok" THEN [tbl EXCEPT ![token].used = TRUE]
    ELSE tbl

\* validateCSRFToken(token, sessionId): the table after the call.
validateCSRFTokenTable(tbl, token, sessionId, clock) ==
    LET r == validateCSRFTokenResult(tbl, token, sessionId, clock) IN
    IF r \in {"AlreadyUsed", "Expired"} THEN Remove(tbl, token)
    ELSE IF r = "ok" THEN [tbl EXCEPT ![token].used = TRUE]
    ELSE tbl

\* The message of the Error that validateCSRFToken throws for each reason
\* (lines 1403, 1408, 1413 and 1417), named here by what it says.
validateCSRFTokenMessage(reason) ==
    CASE reason = "UnknownToken" -> "the CSRF token is invalid"
      [] reason = "AlreadyUsed" -> "the CSRF token was already used"
      [] reason = "Expired" -> "the CSRF token has expired"
      [] reason = "SessionMismatch" -> "the session of the CSRF token does not match"

\* The body of the 403 response of csrfProtection: a fixed one without token
\* or session, else { error: error.message, code: 'INVALID_CSRF_TOKEN' }.
csrfProtectionBody(reason) ==
    IF reason = "Missing" THEN <<"a CSRF token is required", "MISSING_CSRF_TOKEN">>
    ELSE <<validateCSRFTokenMessage(reason), "INVALID_CSRF_TOKEN">>

\* SecurityMiddleware.csrfProtection(), a GET request: a token is issued for the
\* request's session identifier when it has one.
csrfProtectionGETStep(s) ==
    /\ variant = "SecurityUtils"
    /\ nextToken <= MaxTokens
    /\ IF s # ""
       THEN /\ csrfTokens' = generateCSRFToken(csrfTokens, nextToken, s, now)
            /\ nextToken' = nextToken + 1
            /\ issuedTo' = Put(issuedTo, nextToken, s)
            /\ issuedAt' = Put(issuedAt, nextToken, now)
            /\ okCount' = Put(okCount, nextToken, 0)
            /\ swept' = [t \in DOMAIN swept \cup {nextToken} |->
                            IF t = nextToken THEN FALSE ELSE okCount[t] > 0]
       ELSE UNCHANGED <<csrfTokens, nextToken, issuedTo, issuedAt, okCount, swept>>
    /\ UNCHANGED <<variant, nodeEnv, pure, now, last, gateVars, vaultVars>>

\* The middleware on a GET request of any sender.
csrfProtectionGET(s) == csrfProtectionGETStep(s) /\ UNCHANGED <<client, rateVars>>

\* SecurityMiddleware.csrfProtection(), any other method: 403 without token or
\* session, else validateCSRFToken decides between next() and 403.
csrfProtectionPOSTStep(t, s) ==
    /\ variant = "SecurityUtils"
    /\ LET missing == t = 0 \/ s = ""
           r == IF missing THEN "Missing"
                ELSE validateCSRFTokenResult(csrfTokens, t, s, now)
           known == t \in DOMAIN okCount
       IN  /\ csrfTokens' = IF missing THEN csrfTokens
                            ELSE validateCSRFTokenTable(csrfTokens, t, s, now)
           /\ okCount' = IF r = "ok" THEN [okCount EXCEPT ![t] = @ + 1] ELSE okCount
           /\ swept' = IF ~missing /\ known /\ okCount[t] > 0
                       THEN [swept EXCEPT ![t] = TRUE] ELSE swept
           /\ last' = [op |-> "validate", result |-> r,
                       status |-> IF r = "ok" THEN 0 ELSE 403,
                       forwarded |-> r = "ok",
                       foreign |-> r = "ok" /\ issuedTo[t] # s,
                       late |-> r = "ok" /\ now > issuedAt[t] + tokenExpiry,
                       usedBefore |-> known /\ okCount[t] > 0,
                       sweptBefore |-> known /\ swept[t],
                       consumed |-> r = "ok",
                       body |-> IF r = "ok" THEN <<>> ELSE csrfProtectionBody(r),
                       input |-> "",
                       fresh |-> FALSE,
                       held |-> ~missing /\ t \in DOMAIN csrfTokens,
                       pastExpiry |-> known /\ now > issuedAt[t] + tokenExpiry,
                       otherSession |-> known /\ issuedTo[t] # s]
    /\ UNCHANGED <<variant, nodeEnv, pure, now, nextToken, issuedTo, issuedAt, gateVars, vaultVars>>

\* The middleware on any other request of any sender.
csrfProtectionPOST(t, s) == csrfProtectionPOSTStep(t, s) /\ UNCHANGED <<client, rateVars>>

\* ------------------------------------------------------- secure-server.js
Idle == [body |-> "", token |-> 0]

FreeSlots == {i \in DOMAIN pending : pending[i] = Idle}

\* GET /api/csrf-token -> generateCSRFToken(): the token joins the set and a
\* timer is set to delete it one hour later.  The handler reads no session.
getCsrfToken(s) ==
    /\ variant = "secure-server"
    /\ nextToken <= MaxTokens
    /\ serverTokens' = serverTokens \cup {nextToken}
    /\ timers' = timers \cup {nextToken}
    /\ nextToken' = nextToken + 1
    /\ issuedTo' = Put(issuedTo, nextToken, s)
    /\ issuedAt' = Put(issuedAt, nextToken, now)
    /\ okCount' = Put(okCount, nextToken, 0)
    /\ swept' = Put(swept, nextToken, FALSE)
    /\ UNCHANGED <<variant, nodeEnv, pure, client, now, csrfTokens, pending, last, rateVars, vaultVars>>

\* The callback of setTimeout: it runs no earlier than its delay, and as late
\* as the event loop gets to it.
csrfTimer(t) ==
    /\ variant = "secure-server"
    /\ t \in timers
    /\ now >= issuedAt[t] + csrfTimerMs
    /\ timers' = timers \ {t}
    /\ serverTokens' = serverTokens \ {t}
    /\ UNCHANGED <<variant, nodeEnv, pure, client, now, nextToken, csrfTokens, pending, issuedTo, issuedAt, okCount, swept, last,
                   rateVars, vaultVars>>

\* A plausible bug: the used token is deleted only when the response is sent.
tokensAfterCheck_Late(tokens, received, passed) == tokens

\* csrfTokens.delete(receivedToken), right behind the check.
tokensAfterCheck(tokens, received, passed) ==
    IF passed THEN tokens \ {received} ELSE tokens

\* POST /api/synthesize up to "await client.synthesizeSpeech(request)": the
\* CSRF check, the deletion of the token, the validations in their order, and
\* the call.  h is the x-csrf-token header, c the csrfToken of the body, s the
\* session identifier of the sender (which the handler does not read).
postSynthesize(b, h, c, s) ==
    /\ variant = "secure-server"
    /\ LET receivedToken == IF h # 0 THEN h ELSE c
           passed == receivedToken # 0 /\ receivedToken \in serverTokens
           result == IF passed THEN secureDecision[b] ELSE "csrf"
           known == receivedToken \in DOMAIN okCount
       IN  /\ result = "ok" => FreeSlots # {}
           /\ serverTokens' = tokensAfterCheck(serverTokens, receivedToken, passed)
           /\ pending' = IF result = "ok"
                         THEN [pending EXCEPT ![Min(FreeSlots)] = [body |-> b, token |-> receivedToken]]
                         ELSE pending
           /\ okCount' = IF passed THEN [okCount EXCEPT ![receivedToken] = @ + 1] ELSE okCount
           /\ last' = [op |-> "synthesize", result |-> result,
                       status |-> IF result = "ok" THEN 0 ELSE IF result = "csrf" THEN 403 ELSE 400,
                       forwarded |-> result = "ok",
                       foreign |-> passed /\ issuedTo[receivedToken] # s,
                       late |-> passed /\ now > issuedAt[receivedToken] + csrfTimerMs,
                       usedBefore |-> known /\ okCount[receivedToken] > 0,
                       sweptBefore |-> FALSE,
                       consumed |-> receivedToken \in serverTokens
                                        /\ receivedToken \notin
                                               tokensAfterCheck(serverTokens, receivedToken, passed),
                       body |-> IF result = "csrf" THEN <<"the CSRF verification failed">>
                                ELSE IF result # "ok" THEN rejectionBody(variant, result, nodeEnv)
                                ELSE <<>>,
                       input |-> b,
                       fresh |-> /\ known
                                 /\ okCount[receivedToken] = 0
                                 /\ now < issuedAt[receivedToken] + csrfTimerMs
                                 /\ issuedTo[receivedToken] = s,
                       held |-> receivedToken \in serverTokens,
                       pastExpiry |-> known /\ now > issuedAt[receivedToken] + csrfTimerMs,
                       otherSession |-> known /\ issuedTo[receivedToken] # s]
    /\ UNCHANGED <<variant, nodeEnv, pure, client, now, nextToken, csrfTokens, timers, issuedTo, issuedAt, swept, rateVars, vaultVars>>

\* POST /api/synthesize from the return of the provider call to the response.
synthesizeResponse(i, outcome) ==
    /\ variant = "secure-server"
    /\ pending[i] # Idle
    /\ pending' = [pending EXCEPT ![i] = Idle]
    /\ last' = [NoRequest EXCEPT !.op = "response", !.result = outcome,
                                 !.status = responseStatus(outcome),
                                 !.body = responseBody(variant, outcome, nodeEnv),
                                 !.input = pending[i].body]
    /\ UNCHANGED <<variant, nodeEnv, pure, client, now, nextToken, csrfTokens, serverTokens, timers,
                   issuedTo, issuedAt, okCount, swept, rateVars, vaultVars>>

\* -------------------------------------------------------------- server.js
\* POST /api/synthesize of server.js up to "await client.synthesizeSpeech".
plainSynthesize(b) ==
    /\ variant = "server"
    /\ LET result == plainDecision[b] IN
       /\ result = "ok" => FreeSlots # {}
       /\ pending' = IF result = "ok"
                     THEN [pending EXCEPT ![Min(FreeSlots)] = [body |-> b, token |-> 0]]
                     ELSE pending
       /\ last' = [NoRequest EXCEPT !.op = "synthesize", !.result = result,
                                    !.status = IF result = "ok" THEN 0 ELSE 400,
                                    !.forwarded = result = "ok",
                                    !.body = IF result = "ok" THEN <<>>
                                             ELSE rejectionBody(variant, result, nodeEnv),
                                    !.input = b]
    /\ UNCHANGED <<variant, nodeEnv, pure, client, now, nextToken, csrfTokens, serverTokens, timers,
                   issuedTo, issuedAt, okCount, swept, rateVars, vaultVars>>

\* POST /api/synthesize of server.js from the provider's answer to the response.
plainSynthesizeResponse(i, outcome) ==
    /\ variant = "server"
    /\ pending[i] # Idle
    /\ pending' = [pending EXCEPT ![i] = Idle]
    /\ last' = [NoRequest EXCEPT !.op = "response", !.result = outcome,
                                 !.status = responseStatus(outcome),
                                 !.body = responseBody(variant, outcome, nodeEnv),
                                 !.input = pending[i].body]
    /\ UNCHANGED <<variant, nodeEnv, pure, client, now, nextToken, csrfTokens, serverTokens, timers,
                   issuedTo, issuedAt, okCount, swept, rateVars, vaultVars>>

\* ------------------------------------- the server with express-validator
\* POST /api/synthesize of this server up to "await client.synthesizeSpeech":
\* it has no CSRF check.
improvedSynthesize(b) ==
    /\ variant = "improved-server"
    /\ LET result == improvedDecision[b] IN
       /\ result = "ok" => FreeSlots # {}
       /\ pending' = IF result = "ok"
                     THEN [pending EXCEPT ![Min(FreeSlots)] = [body |-> b, token |-> 0]]
                     ELSE pending
       /\ last' = [NoRequest EXCEPT !.op = "synthesize", !.result = result,
                                    !.status = IF result = "ok" THEN 0 ELSE 400,
                                    !.forwarded = result = "ok",
                                    !.body = IF result = "ok" THEN <<>>
                                             ELSE rejectionBody(variant, result, nodeEnv),
                                    !.input = b]
    /\ UNCHANGED <<variant, nodeEnv, pure, client, now, nextToken, csrfTokens, serverTokens, timers,
                   issuedTo, issuedAt, okCount, swept, rateVars, vaultVars>>

\* From the provider's answer to the response.
improvedSynthesizeResponse(i, outcome) ==
    /\ variant = "improved-server"
    /\ pending[i] # Idle
    /\ pending' = [pending EXCEPT ![i] = Idle]
    /\ last' = [NoRequest EXCEPT !.op = "response", !.result = outcome,
                                 !.status = responseStatus(outcome),
                                 !.body = responseBody(variant, outcome, nodeEnv),
                                 !.input = pending[i].body]
    /\ UNCHANGED <<variant, nodeEnv, pure, client, now, nextToken, csrfTokens, serverTokens, timers,
                   issuedTo, issuedAt, okCount, swept, rateVars, vaultVars>>

\* ------------------------------------------- security-fixes.js: RateLimiter
\* The instants the clock visits in a run of a limiter: two instants of
\* admission, and both sides of the end of the window of each.
RateInstants == {0, 1, windowMs - 1, windowMs, windowMs + 1}

NoCall ==
    [op |-> "none", admitted |-> FALSE, liveBefore |-> 0, held |-> 0, age |-> 0, reset |-> 0,
     sameInstant |-> TRUE]

\* A plausible bug: a timestamp is kept until it is older than the window.
Evict_Inclusive(reqs, clock, window) == SelectSeq(reqs, LAMBDA time : clock - time <= window)

\* A plausible bug: the old timestamps are never dropped.
Evict_Never(reqs, clock, window) == reqs

\* this.requests.filter(time => now - time < window)
Evict(reqs, clock, window) == SelectSeq(reqs, LAMBDA time : clock - time < window)

\* A plausible bug: Math.floor in the place of Math.ceil.
Ceil_Floor(x, d) == x \div d

\* Math.ceil(x / d) for an integer x and d > 0
Ceil(x, d) == -((-x) \div d)

\* Math.min(...reqs) of a list that is not empty
Oldest(reqs) == Min({reqs[i] : i \in DOMAIN reqs})

\* canMakeRequest(): what it returns.
canMakeRequest(reqs, clock) == Len(Evict(reqs, clock, windowMs)) < maxRequests

\* A plausible bug: the attempt is recorded before the limit is tested.
requestsAfterCheck_AlwaysPush(reqs, clock) == Append(Evict(reqs, clock, windowMs), clock)

\* canMakeRequest(): this.requests after the call.
requestsAfterCheck(reqs, clock) ==
    IF canMakeRequest(reqs, clock)
    THEN Append(Evict(reqs, clock, windowMs), clock)
    ELSE Evict(reqs, clock, windowMs)

\* getTimeUntilReset()
getTimeUntilReset(reqs, clock) ==
    IF Len(reqs) = 0 THEN 0
    ELSE LET timeUntilReset == windowMs - (clock - Oldest(reqs))
             seconds == Ceil(timeUntilReset, MsPerSecond)
         IN  IF seconds > 0 THEN seconds ELSE 0

\* history: the number of admissions in the window that ends at `clock`,
\* counted from the log of all admissions.
LiveAdmissions(clock, window) ==
    LET live == {t \in RateInstants : t <= clock /\ clock - t < window}
        RECURSIVE Sum(_)
        Sum(S) == IF S = {} THEN 0
                  ELSE LET t == CHOOSE x \in S : TRUE IN admissions[t] + Sum(S \ {t})
    IN  Sum(live)

\* TextToSpeechApp.generateSpeech() of the client that uses window.rateLimiter:
\* the admission check and, when it fails, the message with getTimeUntilReset().
\* canMakeRequest() and getTimeUntilReset() each read Date.now(): the second
\* reading is `later`, the same instant or one behind it.  An admitted call
\* goes on to its awaits (the stored key, then fetch) unless its text is
\* refused (proceeds = FALSE), in which case it returns.
generateSpeech(proceeds, later) ==
    /\ variant = "RateLimiter"
    /\ later >= now
    /\ LET ok == canMakeRequest(requests, now)
           after == requestsAfterCheck(requests, now)
       IN  /\ ok => later = now
           /\ ok /\ proceeds => fetching < MaxFetches
           /\ now' = later
           /\ requests' = after
           /\ fetching' = IF ok /\ proceeds THEN fetching + 1 ELSE fetching
           /\ admissions' = IF ok THEN [admissions EXCEPT ![now] = @ + 1] ELSE admissions
           /\ rateLast' = [op |-> "check", admitted |-> ok,
                           liveBefore |-> LiveAdmissions(now, windowMs),
                           held |-> Len(after),
                           age |-> IF Len(after) = 0 THEN 0 ELSE later - Oldest(after),
                           reset |-> IF ok THEN 0 ELSE getTimeUntilReset(after, later),
                           sameInstant |-> later = now]
    /\ UNCHANGED <<variant, nodeEnv, pure, client, csrfVars, vaultVars>>

\* A call of getTimeUntilReset() at any other moment.
callGetTimeUntilReset ==
    /\ variant = "RateLimiter"
    /\ rateLast' = [op |-> "reset", admitted |-> FALSE,
                    liveBefore |-> LiveAdmissions(now, windowMs),
                    held |-> Len(requests),
                    age |-> IF Len(requests) = 0 THEN 0 ELSE now - Oldest(requests),
                    reset |-> getTimeUntilReset(requests, now),
                    sameInstant |-> TRUE]
    /\ UNCHANGED <<variant, nodeEnv, pure, client, now, csrfVars, vaultVars, requests, fetching, admissions>>

\* A plausible bug: a request that ends gives its slot back.
generateSpeechDone_Refund ==
    /\ variant = "RateLimiter"
    /\ fetching > 0
    /\ fetching' = fetching - 1
    /\ requests' = SubSeq(requests, 1, Len(requests) - 1)
    /\ UNCHANGED <<variant, nodeEnv, pure, client, now, csrfVars, vaultVars, admissions, rateLast>>

\* generateSpeech() from the answer of fetch to its end.
generateSpeechDone ==
    /\ variant = "RateLimiter"
    /\ fetching > 0
    /\ fetching' = fetching - 1
    /\ UNCHANGED <<variant, nodeEnv, pure, client, now, csrfVars, vaultVars, requests, admissions, rateLast>>

\* ------------------------------ api-key-encryption.js: RateLimitTracker
\* RateLimitTracker.canMakeRequest(): what it returns.
trackerCanMakeRequest(reqs, clock) ==
    Len(Evict(reqs, clock, timeWindow)) < trackerMaxRequests

\* A plausible bug: the admitted request is not recorded.
requestsAfterSecureRequest_NoRecord(reqs, clock) == Evict(reqs, clock, timeWindow)

\* this.requests after secureRequest() has run up to "await fetch":
\* canMakeRequest() filters, and recordRequest() pushes when it returned true.
requestsAfterSecureRequest(reqs, clock) ==
    IF trackerCanMakeRequest(reqs, clock)
    THEN Append(Evict(reqs, clock, timeWindow), clock)
    ELSE Evict(reqs, clock, timeWindow)

\* SecureTextToSpeechApp.secureRequest() up to "await fetch(url, mergedOptions)":
\* it throws when the tracker refuses, else records the request and sends it.
secureRequest ==
    /\ variant = "RateLimitTracker"
    /\ LET ok == trackerCanMakeRequest(requests, now)
           after == requestsAfterSecureRequest(requests, now)
       IN  /\ ok => fetching < MaxFetches
           /\ requests' = after
           /\ fetching' = IF ok THEN fetching + 1 ELSE fetching
           /\ admissions' = IF ok THEN [admissions EXCEPT ![now] = @ + 1] ELSE admissions
           /\ rateLast' = [op |-> "check", admitted |-> ok,
                           liveBefore |-> LiveAdmissions(now, timeWindow),
                           held |-> Len(after),
                           age |-> IF Len(after) = 0 THEN 0 ELSE now - Oldest(after),
                           reset |-> 0,
                           sameInstant |-> TRUE]
    /\ UNCHANGED <<variant, nodeEnv, pure, client, now, csrfVars, vaultVars>>

\* secureRequest() from the answer of fetch to its return.
secureRequestDone ==
    /\ variant = "RateLimitTracker"
    /\ fetching > 0
    /\ fetching' = fetching - 1
    /\ UNCHANGED <<variant, nodeEnv, pure, client, now, csrfVars, vaultVars, requests, admissions, rateLast>>

\* ------------------- api-key-encryption.js: SecureTextToSpeechApp and CSRF
\* req.sessionID || req.headers['x-session-id'] for a request of the client
\* that carries the X-Session-ID header.
EffectiveSession ==
    IF client.cookie \notin {"", "undecided"} THEN client.cookie ELSE client.sessionId

\* initializeSecurity(): fetchCSRFToken() sends GET /api/csrf-token without
\* X-Session-ID (this.sessionId is still null), so the middleware issues a
\* token only for req.sessionID; this.csrfToken becomes the header of the
\* answer, null without one.  Then this.sessionId is generated.
initializeSecurity(cookie, sid) ==
    /\ client.pc = "new"
    /\ client.cookie = "undecided" \/ cookie = client.cookie
    /\ csrfProtectionGETStep(cookie)
    /\ client' = [pc |-> "ready",
                  csrfToken |-> IF cookie # "" THEN nextToken ELSE 0,
                  sessionId |-> sid,
                  cookie |-> cookie,
                  posts |-> 0]
    /\ UNCHANGED rateVars

\* generateSpeech() -> secureRequest('/api/synthesize', {method: 'POST'}): the
\* tracker admits and records the request, the headers carry this.csrfToken
\* when it is set and this.sessionId, and the middleware answers.  The answer
\* to a POST carries no X-CSRF-Token header, so this.csrfToken stays.
secureRequestPOST ==
    /\ client.pc = "ready"
    /\ client.posts < MaxPosts
    /\ trackerCanMakeRequest(requests, now)
    /\ requests' = requestsAfterSecureRequest(requests, now)
    /\ csrfProtectionPOSTStep(client.csrfToken, EffectiveSession)
    /\ client' = [client EXCEPT !.posts = @ + 1]
    /\ UNCHANGED <<fetching, admissions, rateLast>>

\* The page is loaded again: a new SecureTextToSpeechApp and a new tracker;
\* the session cookie stays with the browser.
reloadPage ==
    /\ variant = "SecurityUtils"
    /\ client.pc = "ready"
    /\ client' = [NoClient EXCEPT !.cookie = client.cookie]
    /\ requests' = <<>>
    /\ UNCHANGED <<variant, nodeEnv, pure, now, csrfVars, vaultVars, fetching, admissions, rateLast>>

\* ---------------------------- security-fixes.js: SecureApiKeyManager
\* The instants the clock visits in a run of a vault: a save, the last instant
\* at which its blob is not expired, and the instant behind it.
VaultInstants == {0, vaultExpiry, vaultExpiry + 1}

\* The secrets saved; "" is an apiKey that is falsy.
Secrets == {"k1", "k2"}

\* A key is the number of the generateKey call that made it; 0 is no key.
\* A blob holds the secret it encrypts and the key it was encrypted under; its
\* bytes are altered when corrupt.  sessionStorage.getItem answers null for
\* NoBlob and for the cryptoKey 0.
NoBlob == [secret |-> "", key |-> 0, timestamp |-> 0, corrupt |-> FALSE]

NoSave == [secret |-> "", at |-> 0, intact |-> FALSE, afterExpiry |-> FALSE]

\* A method suspended in an await: where it waits (pc) and its local values.
\* asked is history: the method is a load that has to give back the last save.
IdleCall ==
    [op |-> "idle", pc |-> "", secret |-> "", key |-> 0, blob |-> NoBlob,
     asked |-> FALSE, aged |-> FALSE, afterExpiry |-> FALSE]

NoVaultCall ==
    [op |-> "none", result |-> "", roundTrip |-> FALSE, exact |-> FALSE, afterExpiry |-> FALSE,
     aged |-> FALSE, failed |-> FALSE, keyMismatch |-> FALSE, blobAfter |-> FALSE,
     sent |-> "none"]

StartCall(c) == calls (+) SetToBag({c})

EndCall(c) == calls (-) SetToBag({c})

MoveCall(c, d) == (calls (-) SetToBag({c})) (+) SetToBag({d})

\* history: the loads in flight are no longer behind an undisturbed save.
Unasked(c) == [c EXCEPT !.asked = FALSE]

Disturbed(B) == BagOfAll(Unasked, B)

\* A plausible bug: without a stored key the client gives up.
requestAfterLoad_GiveUp(apiKey) == IF apiKey = "null" THEN "none" ELSE "withKey"

\* generateSpeech() behind "await ...getApiKeySecurely()" (loadApiKeySecurely()
\* in api-key-encryption.js): the key joins the body of the request when the
\* load returned one, and the request is sent.  The secrets of the model are
\* well-formed keys, which validateApiKeyFormat lets pass.
requestAfterLoad(apiKey) == IF apiKey = "null" THEN "withoutKey" ELSE "withKey"

\* history: the record of a load that ends, with the request its caller
\* generateSpeech then sends.
LoadEnded(asked, result, aged, failed, keyMismatch, blobAfter) ==
    [op |-> "load", result |-> result, roundTrip |-> asked,
     exact |-> asked /\ result = saved.secret,
     afterExpiry |-> asked /\ saved.afterExpiry,
     aged |-> aged, failed |-> failed, keyMismatch |-> keyMismatch, blobAfter |-> blobAfter,
     sent |-> requestAfterLoad(result)]

\* A plausible bug: a cipher whose decryption does not authenticate the key.
decrypt_AnyKey(blob, key) == IF blob.corrupt \/ key = 0 THEN "reject" ELSE blob.secret

\* crypto.subtle.decrypt with AES-GCM: the plaintext when the key is the one
\* of the encryption and the bytes are unaltered, else the promise rejects.
decrypt(blob, key) ==
    IF blob.corrupt \/ key = 0 \/ key # blob.key THEN "reject" ELSE blob.secret

\* history: the save a load that starts now has to give back: the last save
\* that completed, when nothing has been cleared, regenerated or altered since
\* and less than the expiry window has passed.
RoundTripOf(clock) == saved.intact /\ clock - saved.at < vaultExpiry

\* history: the age of the stored blob is beyond the expiry window.
Aged(blob, clock) == blob # NoBlob /\ clock - blob.timestamp > vaultExpiry

\* A plausible bug: clearApiKey leaves the blob in place.
storageAfterClearApiKey_KeepBlob(store) == [store EXCEPT !.cryptoKey = 0]

\* clearApiKey(): sessionStorage after the two removeItem calls.
storageAfterClearApiKey(store) == [blob |-> NoBlob, cryptoKey |-> 0]

\* getEncryptionKey() up to its first await, for a method that then uses the
\* key in `work` ("encrypt" or "decrypt"): the place where the method waits.
WaitAfterEntry(work) ==
    IF encryptionKey # 0 THEN work
    ELSE IF sessionStorage.cryptoKey # 0 THEN "importKey"
    ELSE "generateKey"

\* The key the method holds while it waits there: the handle, or the keyData
\* read from sessionStorage.
KeyAfterEntry ==
    IF encryptionKey # 0 THEN encryptionKey ELSE sessionStorage.cryptoKey

WorkOf(op) == IF op = "save" THEN "encrypt" ELSE "decrypt"

\* saveApiKeySecurely(apiKey) up to its first await.
saveApiKeySecurely(apiKey) ==
    /\ variant = "vault-fixes"
    /\ BagCardinality(calls) < MaxCalls
    /\ IF apiKey = ""
       THEN /\ vaultLast' = [NoVaultCall EXCEPT !.op = "save", !.result = "throw"]
            /\ UNCHANGED calls
       ELSE /\ calls' = StartCall([IdleCall EXCEPT !.op = "save", !.pc = WaitAfterEntry("encrypt"),
                                             !.secret = apiKey, !.key = KeyAfterEntry,
                                             !.afterExpiry = expiredSeen])
            /\ UNCHANGED vaultLast
    /\ UNCHANGED <<variant, nodeEnv, pure, client, now, csrfVars, rateVars, sessionStorage, encryptionKey, indexedDB,
                   vaultTimers, nextKey, saved, expiredSeen>>

\* getEncryptionKey() behind "await crypto.subtle.importKey".
importKeyDone(c) ==
    /\ variant = "vault-fixes"
    /\ BagIn(c, calls)
    /\ c.pc = "importKey"
    /\ encryptionKey' = c.key
    /\ calls' = MoveCall(c, [c EXCEPT !.pc = WorkOf(c.op)])
    /\ UNCHANGED <<variant, nodeEnv, pure, client, now, csrfVars, rateVars, sessionStorage, indexedDB, vaultTimers,
                   nextKey, saved, expiredSeen, vaultLast>>

\* getEncryptionKey() behind "await crypto.subtle.generateKey": the handle is
\* set and exportKey is called on it.
generateKeyDone(c) ==
    /\ variant = "vault-fixes"
    /\ BagIn(c, calls)
    /\ c.pc = "generateKey"
    /\ nextKey <= MaxKeys
    /\ encryptionKey' = nextKey
    /\ nextKey' = nextKey + 1
    /\ calls' = Disturbed(MoveCall(c, [c EXCEPT !.pc = "exportKey", !.key = nextKey]))
    /\ saved' = [saved EXCEPT !.intact = FALSE]
    /\ UNCHANGED <<variant, nodeEnv, pure, client, now, csrfVars, rateVars, sessionStorage, indexedDB, vaultTimers,
                   expiredSeen, vaultLast>>

\* getEncryptionKey() behind "await crypto.subtle.exportKey": the raw key goes
\* to sessionStorage and the method gets this.encryptionKey as it is now.
exportKeyDone(c) ==
    /\ variant = "vault-fixes"
    /\ BagIn(c, calls)
    /\ c.pc = "exportKey"
    /\ sessionStorage' = [sessionStorage EXCEPT !.cryptoKey = c.key]
    /\ calls' = MoveCall(c, [c EXCEPT !.pc = WorkOf(c.op), !.key = encryptionKey])
    /\ UNCHANGED <<variant, nodeEnv, pure, client, now, csrfVars, rateVars, encryptionKey, indexedDB, vaultTimers,
                   nextKey, saved, expiredSeen, vaultLast>>

\* saveApiKeySecurely behind "await crypto.subtle.encrypt": the blob is stored
\* with the time of now and the timer is set.  encrypt rejects a null key,
\* and the method throws.
encryptDone(c) ==
    /\ variant = "vault-fixes"
    /\ BagIn(c, calls)
    /\ c.pc = "encrypt"
    /\ IF c.key = 0
       THEN /\ calls' = EndCall(c)
            /\ vaultLast' = [NoVaultCall EXCEPT !.op = "save", !.result = "throw"]
            /\ UNCHANGED <<sessionStorage, vaultTimers, saved>>
       ELSE /\ calls' = Disturbed(EndCall(c))
            /\ sessionStorage' =
                   [sessionStorage EXCEPT !.blob =
                       [secret |-> c.secret, key |-> c.key,
                        timestamp |-> now, corrupt |-> FALSE]]
            /\ vaultTimers' = vaultTimers \cup {now}
            /\ saved' = [secret |-> c.secret, at |-> now, intact |-> TRUE,
                         afterExpiry |-> c.afterExpiry]
            /\ vaultLast' = [NoVaultCall EXCEPT !.op = "save", !.result = "true"]
    /\ UNCHANGED <<variant, nodeEnv, pure, client, now, csrfVars, rateVars, encryptionKey, indexedDB, nextKey,
                   expiredSeen>>

\* getApiKeySecurely() up to its first await: null without a blob; an expired
\* blob is cleared and null returned; else the key is acquired for the blob
\* that was read.
getApiKeySecurely ==
    /\ variant = "vault-fixes"
    /\ BagCardinality(calls) < MaxCalls
    /\ LET blob == sessionStorage.blob
           asked == RoundTripOf(now)
           ended == LoadEnded(asked, "null", FALSE, FALSE, FALSE, FALSE)
       IN  IF blob = NoBlob
           THEN /\ vaultLast' = ended
                /\ UNCHANGED <<sessionStorage, encryptionKey, calls, expiredSeen>>
           ELSE IF now - blob.timestamp > vaultExpiry
           THEN /\ sessionStorage' = storageAfterClearApiKey(sessionStorage)
                /\ encryptionKey' = 0
                /\ expiredSeen' = TRUE
                /\ vaultLast' = [ended EXCEPT !.aged = TRUE]
                /\ UNCHANGED calls
           ELSE /\ calls' = StartCall([IdleCall EXCEPT !.op = "load", !.pc = WaitAfterEntry("decrypt"),
                                                 !.key = KeyAfterEntry,
                                                 !.blob = [blob EXCEPT !.timestamp = 0],
                                                 !.asked = asked])
                /\ UNCHANGED <<sessionStorage, encryptionKey, expiredSeen, vaultLast>>
    /\ UNCHANGED <<variant, nodeEnv, pure, client, now, csrfVars, rateVars, indexedDB, vaultTimers, nextKey, saved>>

\* getApiKeySecurely behind "await crypto.subtle.decrypt": the secret, or the
\* catch block: clearApiKey() and null.
decryptDone(c) ==
    /\ variant = "vault-fixes"
    /\ BagIn(c, calls)
    /\ c.pc = "decrypt"
    /\ LET plain == decrypt(c.blob, c.key)
           after == IF plain = "reject" THEN storageAfterClearApiKey(sessionStorage)
                    ELSE sessionStorage
       IN  /\ sessionStorage' = after
           /\ encryptionKey' = IF plain = "reject" THEN 0 ELSE encryptionKey
           /\ vaultLast' = LoadEnded(c.asked, IF plain = "reject" THEN "null" ELSE plain,
                                      FALSE, plain = "reject", c.key # c.blob.key,
                                      after.blob # NoBlob)
    /\ calls' = EndCall(c)
    /\ UNCHANGED <<variant, nodeEnv, pure, client, now, csrfVars, rateVars, indexedDB, vaultTimers, nextKey, saved,
                   expiredSeen>>

\* clearApiKey(), called by the application.
clearApiKey ==
    /\ variant = "vault-fixes"
    /\ sessionStorage' = storageAfterClearApiKey(sessionStorage)
    /\ encryptionKey' = 0
    /\ saved' = [saved EXCEPT !.intact = FALSE]
    /\ vaultLast' = [NoVaultCall EXCEPT !.op = "clear", !.result = "done"]
    /\ calls' = Disturbed(calls)
    /\ UNCHANGED <<variant, nodeEnv, pure, client, now, csrfVars, rateVars, indexedDB, vaultTimers, nextKey,
                   expiredSeen>>

\* The callback of setTimeout(() => this.clearApiKey(), 30 * 60 * 1000) of the
\* save made at t: it runs no earlier than its delay.
vaultTimer(t) ==
    /\ variant = "vault-fixes"
    /\ t \in vaultTimers
    /\ now >= t + vaultExpiry
    /\ vaultTimers' = vaultTimers \ {t}
    /\ sessionStorage' = storageAfterClearApiKey(sessionStorage)
    /\ encryptionKey' = 0
    /\ UNCHANGED <<variant, nodeEnv, pure, client, now, csrfVars, rateVars, indexedDB, calls, nextKey, saved,
                   expiredSeen, vaultLast>>

\* The page is loaded again in its tab: sessionStorage stays, the object is
\* constructed anew, and the timers and the suspended methods are gone.
pageReload ==
    /\ variant = "vault-fixes"
    /\ encryptionKey' = 0
    /\ vaultTimers' = {}
    /\ calls' = EmptyBag
    /\ UNCHANGED <<variant, nodeEnv, pure, client, now, csrfVars, rateVars, sessionStorage, indexedDB, nextKey, saved,
                   expiredSeen, vaultLast>>

\* Another script of the page, or the user, alters the stored blob.
corruptBlob ==
    /\ variant \in {"vault-fixes", "vault-idb"}
    /\ sessionStorage.blob # NoBlob
    /\ ~sessionStorage.blob.corrupt
    /\ sessionStorage' = [sessionStorage EXCEPT !.blob.corrupt = TRUE]
    /\ saved' = [saved EXCEPT !.intact = FALSE]
    /\ calls' = Disturbed(calls)
    /\ UNCHANGED <<variant, nodeEnv, pure, client, now, csrfVars, rateVars, encryptionKey, indexedDB, vaultTimers,
                   nextKey, expiredSeen, vaultLast>>

\* -------------------- api-key-encryption.js: SecureApiKeyManager
\* This vault keeps the key, not extractable, in IndexedDB and makes a new one
\* for every save.  Its blob stores no time: blob.timestamp is history here.
\*
\* indexedDB.open('TTSSecureStorage', 1) creates the database when there is
\* none, and the object store 'keys' only when the caller has set
\* onupgradeneeded.  db.transaction(['keys'], ...) throws in the onsuccess
\* handler when the store is missing, and then the promise is never settled.

\* A plausible bug: the catch block of loadApiKeySecurely keeps the entry.
storageAfterLoadFailure_Keep(store) == store

\* loadApiKeySecurely, catch: sessionStorage.removeItem(this.storageKey)
storageAfterLoadFailure(store) == [store EXCEPT !.blob = NoBlob]

\* The database after clearEncryptionKey() has opened it and run its
\* transaction.
dbAfterClearEncryptionKey(idb) ==
    IF idb.db = "ready" THEN [idb EXCEPT !.key = 0] ELSE [idb EXCEPT !.db = "noStore"]

\* The database after retrieveEncryptionKey() has opened it.
dbAfterRetrieveEncryptionKey(idb) ==
    IF idb.db = "ready" THEN idb ELSE [idb EXCEPT !.db = "noStore"]

\* saveApiKeySecurely(apiKey) -> encryptApiKey(apiKey) up to
\* "await crypto.subtle.generateKey".
encryptApiKey(apiKey) ==
    /\ variant = "vault-idb"
    /\ BagCardinality(calls) < MaxCalls
    /\ calls' = StartCall([IdleCall EXCEPT !.op = "save", !.pc = "generateKey", !.secret = apiKey,
                                     !.afterExpiry = expiredSeen])
    /\ UNCHANGED <<variant, nodeEnv, pure, client, now, csrfVars, rateVars, sessionStorage, encryptionKey, indexedDB,
                   vaultTimers, nextKey, saved, expiredSeen, vaultLast>>

\* encryptApiKey from the new key to "await this.storeEncryptionKey(key)";
\* the await of crypto.subtle.encrypt between them touches nothing shared.
encryptApiKeyKey(c) ==
    /\ variant = "vault-idb"
    /\ BagIn(c, calls)
    /\ c.pc = "generateKey"
    /\ nextKey <= MaxKeys
    /\ nextKey' = nextKey + 1
    /\ calls' = Disturbed(MoveCall(c, [c EXCEPT !.pc = "storeKey", !.key = nextKey]))
    /\ saved' = [saved EXCEPT !.intact = FALSE]
    /\ UNCHANGED <<variant, nodeEnv, pure, client, now, csrfVars, rateVars, sessionStorage, encryptionKey, indexedDB,
                   vaultTimers, expiredSeen, vaultLast>>

\* storeEncryptionKey(key): the transaction that puts the key, and behind it
\* the rest of saveApiKeySecurely: setItem and return true.  Without the
\* object store the method never returns.
storeEncryptionKey(c) ==
    /\ variant = "vault-idb"
    /\ BagIn(c, calls)
    /\ c.pc = "storeKey"
    /\ IF indexedDB.db = "noStore"
       THEN /\ calls' = EndCall(c)
            /\ vaultLast' = [NoVaultCall EXCEPT !.op = "save", !.result = "never"]
            /\ UNCHANGED <<indexedDB, sessionStorage, saved>>
       ELSE /\ calls' = Disturbed(EndCall(c))
            /\ indexedDB' = [db |-> "ready", key |-> c.key]
            /\ sessionStorage' =
                   [sessionStorage EXCEPT !.blob =
                       [secret |-> c.secret, key |-> c.key,
                        timestamp |-> now, corrupt |-> FALSE]]
            /\ saved' = [secret |-> c.secret, at |-> now, intact |-> TRUE,
                         afterExpiry |-> c.afterExpiry]
            /\ vaultLast' = [NoVaultCall EXCEPT !.op = "save", !.result = "true"]
    /\ UNCHANGED <<variant, nodeEnv, pure, client, now, csrfVars, rateVars, encryptionKey, vaultTimers, nextKey,
                   expiredSeen>>

\* loadApiKeySecurely() up to "await this.retrieveEncryptionKey()".
loadApiKeySecurely ==
    /\ variant = "vault-idb"
    /\ BagCardinality(calls) < MaxCalls
    /\ LET blob == sessionStorage.blob
           asked == RoundTripOf(now)
       IN  IF blob = NoBlob
           THEN /\ vaultLast' = LoadEnded(asked, "null", FALSE, FALSE, FALSE, FALSE)
                /\ UNCHANGED calls
           ELSE /\ calls' = StartCall([IdleCall EXCEPT !.op = "load", !.pc = "retrieveKey",
                                                 !.blob = [blob EXCEPT !.timestamp = 0],
                                                 !.asked = asked,
                                                 !.aged = Aged(blob, now)])
                /\ UNCHANGED vaultLast
    /\ UNCHANGED <<variant, nodeEnv, pure, client, now, csrfVars, rateVars, sessionStorage, encryptionKey, indexedDB,
                   vaultTimers, nextKey, saved, expiredSeen>>

\* decryptApiKey behind "await this.retrieveEncryptionKey()": without a key it
\* throws, and loadApiKeySecurely removes the entry and returns null.
retrieveEncryptionKey(c) ==
    /\ variant = "vault-idb"
    /\ BagIn(c, calls)
    /\ c.pc = "retrieveKey"
    /\ IF indexedDB.db # "ready"
       THEN /\ calls' = EndCall(c)
            /\ vaultLast' = [NoVaultCall EXCEPT !.op = "load", !.result = "never",
                                               !.aged = c.aged,
                                               !.blobAfter = sessionStorage.blob # NoBlob]
            /\ UNCHANGED sessionStorage
       ELSE IF indexedDB.key = 0
       THEN /\ calls' = EndCall(c)
            /\ sessionStorage' = storageAfterLoadFailure(sessionStorage)
            /\ vaultLast' = LoadEnded(c.asked, "null", c.aged, TRUE, TRUE,
                                       storageAfterLoadFailure(sessionStorage).blob # NoBlob)
       ELSE /\ calls' = MoveCall(c, [c EXCEPT !.pc = "decrypt", !.key = indexedDB.key])
            /\ UNCHANGED <<sessionStorage, vaultLast>>
    /\ indexedDB' = dbAfterRetrieveEncryptionKey(indexedDB)
    /\ UNCHANGED <<variant, nodeEnv, pure, client, now, csrfVars, rateVars, encryptionKey, vaultTimers,
                   nextKey, saved, expiredSeen>>

\* decryptApiKey behind "await crypto.subtle.decrypt": the secret, or the
\* catch blocks: the entry is removed and null returned.
decryptApiKey(c) ==
    /\ variant = "vault-idb"
    /\ BagIn(c, calls)
    /\ c.pc = "decrypt"
    /\ LET plain == decrypt(c.blob, c.key)
           after == IF plain = "reject" THEN storageAfterLoadFailure(sessionStorage)
                    ELSE sessionStorage
       IN  /\ sessionStorage' = after
           /\ vaultLast' = LoadEnded(c.asked, IF plain = "reject" THEN "null" ELSE plain,
                                      c.aged, plain = "reject", c.key # c.blob.key,
                                      after.blob # NoBlob)
    /\ calls' = EndCall(c)
    /\ UNCHANGED <<variant, nodeEnv, pure, client, now, csrfVars, rateVars, encryptionKey, indexedDB, vaultTimers,
                   nextKey, saved, expiredSeen>>

\* clearApiKeySecurely() up to "await this.clearEncryptionKey()".
clearApiKeySecurely ==
    /\ variant = "vault-idb"
    /\ BagCardinality(calls) < MaxCalls
    /\ sessionStorage' = [sessionStorage EXCEPT !.blob = NoBlob]
    /\ calls' = Disturbed(StartCall([IdleCall EXCEPT !.op = "clear", !.pc = "clearKey"]))
    /\ saved' = [saved EXCEPT !.intact = FALSE]
    /\ UNCHANGED <<variant, nodeEnv, pure, client, now, csrfVars, rateVars, encryptionKey, indexedDB, vaultTimers,
                   nextKey, expiredSeen, vaultLast>>

\* clearEncryptionKey(): the transaction that deletes the key, and behind it
\* the return of clearApiKeySecurely.  Without the object store the method
\* never returns; the database it opened stays, without the store.
clearEncryptionKey(c) ==
    /\ variant = "vault-idb"
    /\ BagIn(c, calls)
    /\ c.pc = "clearKey"
    /\ calls' = Disturbed(EndCall(c))
    /\ saved' = [saved EXCEPT !.intact = FALSE]
    /\ indexedDB' = dbAfterClearEncryptionKey(indexedDB)
    /\ vaultLast' = [NoVaultCall EXCEPT !.op = "clear",
                                        !.result = IF indexedDB.db = "ready" THEN "true" ELSE "never",
                                        !.blobAfter = sessionStorage.blob # NoBlob]
    /\ UNCHANGED <<variant, nodeEnv, pure, client, now, csrfVars, rateVars, sessionStorage, encryptionKey, vaultTimers,
                   nextKey, expiredSeen>>

\* The page is left and loaded again in its tab: the beforeunload listener
\* calls clearEncryptionKey(), whose transaction runs (done) or not before the
\* page is gone; sessionStorage stays and the suspended methods are gone.
beforeUnload(done) ==
    /\ variant = "vault-idb"
    /\ indexedDB' = IF done THEN dbAfterClearEncryptionKey(indexedDB) ELSE indexedDB
    /\ calls' = EmptyBag
    /\ saved' = [saved EXCEPT !.intact = FALSE]
    /\ UNCHANGED <<variant, nodeEnv, pure, client, now, csrfVars, rateVars, sessionStorage, encryptionKey, vaultTimers,
                   nextKey, expiredSeen, vaultLast>>

\* ------------------------------------------ the sanitizers and validators
\* Each is a function of its argument alone: a call records what it returned.
Returned(fn, out) ==
    /\ variant = "functions"
    /\ pure' = [pure EXCEPT !.fn = fn, !.out = out]
    /\ UNCHANGED <<variant, nodeEnv, client, now, csrfVars, rateVars, vaultVars>>

\* security-fixes.js
callSanitizeText == Returned("sanitizeText", sanitizeText(pure.arg))

callValidateApiKey == Returned("validateApiKey", validateApiKey(pure.arg))

\* secure-server.js
callValidateInputText == Returned("validateInput.text", validateInputText(pure.arg))

callValidateInputApiKey ==
    Returned("validateInput.apiKey", validateInputApiKeyResult(pure.arg))

\* The server with express-validator: its validateApiKey returns a boolean,
\* without a reason.
callServerSanitizeText == Returned("server sanitizeText", Str(serverSanitizeText(pure.arg)))

callServerValidateApiKey ==
    Returned("server validateApiKey", Verdict(serverValidateApiKey(pure.arg), ""))

\* api-key-encryption.js, SecureTextToSpeechApp
callValidateApiKeyFormat ==
    Returned("validateApiKeyFormat", Verdict(validateApiKeyFormat(pure.arg), ""))

\* SecurityUtils.sanitizeInput, followed on the arguments whose text holds no
\* markup (DOMPurify is not part of the source).
callSanitizeInput ==
    /\ pure.arg.t = "string" => MarkupFree(pure.arg.s)
    /\ Returned("sanitizeInput", sanitizeInput(pure.arg))

\* ------------------------------------------------------------------- clock
AdvanceClock(t) ==
    /\ t > now
    /\ now' = t
    /\ UNCHANGED <<variant, nodeEnv, pure, client, csrfVars, rateVars, vaultVars>>

\* ------------------------------------------------------------ specification
\* The requests sent to POST /api/synthesize of secure-server.js, with their
\* bodies drawn from B.  A request that fails the CSRF check is answered before
\* its body is looked at, so for those one body and one sender stand for all.
SynthesizeInputs(B) ==
    {r \in B \X (0..MaxTokens) \X (0..MaxTokens) \X Sessions :
        \/ (IF r[2] # 0 THEN r[2] ELSE r[3]) \in serverTokens
        \/ r[1] = "good" /\ r[4] = "sessA"}

\* No sanitizer or validator has been called.
NoApplication == [arg |-> Undefined, fn |-> "none", out |-> Undefined]

\* Everything but the argument of the sanitizers and validators.
InitRest(V, E) ==
    /\ variant \in V
    /\ nodeEnv \in E
    /\ now = 0
    /\ nextToken = 1
    /\ csrfTokens = <<>>
    /\ serverTokens = {}
    /\ timers = {}
    /\ pending = [i \in 1..MaxInflight |-> Idle]
    /\ issuedTo = <<>>
    /\ issuedAt = <<>>
    /\ okCount = <<>>
    /\ swept = <<>>
    /\ last = NoRequest
    /\ requests = <<>>
    /\ fetching = 0
    /\ admissions = [t \in RateInstants |-> 0]
    /\ rateLast = NoCall
    /\ sessionStorage = [blob |-> NoBlob, cryptoKey |-> 0]
    /\ encryptionKey = 0
    /\ indexedDB = [db |-> "absent", key |-> 0]
    /\ vaultTimers = {}
    /\ calls = EmptyBag
    /\ nextKey = 1
    /\ saved = NoSave
    /\ expiredSeen = FALSE
    /\ vaultLast = NoVaultCall
    /\ client = NoClient

InitOfEnv(V, E) == InitRest(V, E) /\ pure = NoApplication

InitOf(V) == InitOfEnv(V, {"production"})

\* The CSRF token services: SecurityUtils behind its middleware, and the token
\* set of secure-server.js behind its synthesis handler.
Init == InitOf({"SecurityUtils", "secure-server"})

Next ==
    \/ \E s \in Sessions \cup {""} : csrfProtectionGET(s)
    \/ \E t \in 0..MaxTokens, s \in Sessions \cup {""} : csrfProtectionPOST(t, s)
    \/ \E s \in Sessions : getCsrfToken(s)
    \/ \E t \in 1..MaxTokens : csrfTimer(t)
    \/ \E r \in SynthesizeInputs({"good", "len6000"}) : postSynthesize(r[1], r[2], r[3], r[4])
    \/ \E i \in 1..MaxInflight, o \in ProviderOutcomes : synthesizeResponse(i, o)
    \/ \E t \in CsrfInstants : AdvanceClock(t)

Spec == Init /\ [][Next]_vars

\* The two synthesis handlers with every body of the table.
InitGate == InitOf({"secure-server", "server"})

NextGate ==
    \/ \E s \in Sessions : getCsrfToken(s)
    \/ \E t \in 1..MaxTokens : csrfTimer(t)
    \/ \E r \in SynthesizeInputs(BodyNames) : postSynthesize(r[1], r[2], r[3], r[4])
    \/ \E i \in 1..MaxInflight, o \in ProviderOutcomes : synthesizeResponse(i, o)
    \/ \E b \in BodyNames : plainSynthesize(b)
    \/ \E i \in 1..MaxInflight, o \in ProviderOutcomes : plainSynthesizeResponse(i, o)
    \/ \E t \in CsrfInstants : AdvanceClock(t)

SpecGate == InitGate /\ [][NextGate]_vars

\* The three synthesis handlers with the bodies the admission turns on, in
\* every setting of NODE_ENV.
AdmitBodies == {"good", "script", "charKey", "len6000"}

InitAdmit ==
    InitOfEnv({"secure-server", "server", "improved-server"},
              {"production", "development", "unset"})

NextAdmit ==
    \/ \E s \in Sessions : getCsrfToken(s)
    \/ \E t \in 1..MaxTokens : csrfTimer(t)
    \/ \E r \in SynthesizeInputs(AdmitBodies) : postSynthesize(r[1], r[2], r[3], r[4])
    \/ \E i \in 1..MaxInflight, o \in ProviderOutcomes : synthesizeResponse(i, o)
    \/ \E b \in AdmitBodies : plainSynthesize(b)
    \/ \E i \in 1..MaxInflight, o \in ProviderOutcomes : plainSynthesizeResponse(i, o)
    \/ \E b \in AdmitBodies : improvedSynthesize(b)
    \/ \E i \in 1..MaxInflight, o \in ProviderOutcomes : improvedSynthesizeResponse(i, o)
    \/ \E t \in CsrfInstants : AdvanceClock(t)

SpecAdmit == InitAdmit /\ [][NextAdmit]_vars

\* The same, with what the event loop guarantees: time passes, and a timer
\* callback that is due runs.  Nothing makes the provider answer.
SpecAdmitFair ==
    /\ SpecAdmit
    /\ WF_vars(\E t \in CsrfInstants : AdvanceClock(t))
    /\ \A t \in 1..MaxTokens : WF_vars(csrfTimer(t))

\* The arguments of the sanitizers and validators: the texts made of at most
\* MaxPieces of the pieces their regular expressions look for, the keys on
\* both sides of each test of the validators, and the values that are no
\* strings.
Pieces ==
    {<<"<", "s", "c", "r", "i", "p", "t", ">">>,
     <<"<", "/", "s", "c", "r", "i", "p", "t", ">">>,
     <<"<", "s", "c", "r", "i", "p", "t">>,
     <<"<", "b", ">">>,
     <<"a">>,
     <<" ">>,
     JavascriptColon,
     <<"j", "a", "v", "a">>,
     <<"s", "c", "r", "i", "p", "t", ":">>,
     <<"o", "n">>,
     <<"x", "=", "'", "a", "'">>}

RECURSIVE Concat(_)
Concat(ps) == IF ps = <<>> THEN <<>> ELSE Head(ps) \o Concat(Tail(ps))

TextInputs == {Str(Concat(ps)) : ps \in UNION {[1..k -> Pieces] : k \in 0..MaxPieces}}

KeyLengths ==
    {ApiKeyMinLength - 1, ApiKeyMinLength, ApiKeyMinLength + 4, ApiKeyMaxLength,
     ApiKeyMaxLength + 1}

KeyInputs ==
    {Str(prefix \o Rep("x", n - 5) \o <<c>>) :
        prefix \in {<<"A", "I", "z", "a">>, <<"x", "I", "z", "a">>},
        n \in KeyLengths, c \in {"x", "-", "!"}}

NonStrings == {Undefined, Null, Num(0), Num(700)}

PureInputs == TextInputs \cup KeyInputs \cup NonStrings

InitPure ==
    /\ InitRest({"functions"}, {"production"})
    /\ pure \in {[NoApplication EXCEPT !.arg = x] : x \in PureInputs}

NextPure ==
    \/ callSanitizeText
    \/ callValidateApiKey
    \/ callValidateInputText
    \/ callValidateInputApiKey
    \/ callServerSanitizeText
    \/ callServerValidateApiKey
    \/ callSanitizeInput
    \/ callValidateApiKeyFormat

SpecPure == InitPure /\ [][NextPure]_vars

\* SecureTextToSpeechApp in front of SecurityMiddleware.csrfProtection.
InitClient == InitOf({"SecurityUtils"})

NextClient ==
    \/ \E cookie \in Sessions \cup {""}, sid \in Sessions : initializeSecurity(cookie, sid)
    \/ secureRequestPOST
    \/ reloadPage
    \/ \E t \in CsrfInstants : AdvanceClock(t)

SpecClient == InitClient /\ [][NextClient]_vars

\* The two client-side limiters.
InitRate == InitOf({"RateLimiter", "RateLimitTracker"})

NextRate ==
    \/ \E proceeds \in BOOLEAN, later \in RateInstants : generateSpeech(proceeds, later)
    \/ callGetTimeUntilReset
    \/ generateSpeechDone
    \/ secureRequest
    \/ secureRequestDone
    \/ \E t \in RateInstants : AdvanceClock(t)

SpecRate == InitRate /\ [][NextRate]_vars

\* The two vaults.
InitVault == InitOf({"vault-fixes", "vault-idb"})

NextVault ==
    \/ \E k \in Secrets \cup {""} : saveApiKeySecurely(k)
    \/ \E c \in BagToSet(calls) : importKeyDone(c)
    \/ \E c \in BagToSet(calls) : generateKeyDone(c)
    \/ \E c \in BagToSet(calls) : exportKeyDone(c)
    \/ \E c \in BagToSet(calls) : encryptDone(c)
    \/ getApiKeySecurely
    \/ \E c \in BagToSet(calls) : decryptDone(c)
    \/ clearApiKey
    \/ \E t \in VaultInstants : vaultTimer(t)
    \/ pageReload
    \/ corruptBlob
    \/ \E k \in Secrets : encryptApiKey(k)
    \/ \E c \in BagToSet(calls) : encryptApiKeyKey(c)
    \/ \E c \in BagToSet(calls) : storeEncryptionKey(c)
    \/ loadApiKeySecurely
    \/ \E c \in BagToSet(calls) : retrieveEncryptionKey(c)
    \/ \E c \in BagToSet(calls) : decryptApiKey(c)
    \/ clearApiKeySecurely
    \/ \E c \in BagToSet(calls) : clearEncryptionKey(c)
    \/ \E done \in BOOLEAN : beforeUnload(done)
    \/ \E t \in VaultInstants : AdvanceClock(t)

SpecVault == InitVault /\ [][NextVault]_vars

\* ------------------------------------------------------------------ claims
\* C1: a token passes validation at most once, on whatever session and at
\* whatever time it is presented again.
C1_OneTimeToken == \A t \in DOMAIN okCount : okCount[t] <= 1

\* A consumed token is presented again within its lifetime, and refused.
C1_Witness ==
    /\ last.op = "validate"
    /\ last.usedBefore
    /\ last.result = "AlreadyUsed"
    /\ now = 0
    /\ \E t \in DOMAIN okCount : okCount[t] = 1

\* C2: a token obtained by one session never passes validation when another
\* session presents it.  (Violated by the token set of secure-server.js.)
C2_SessionBinding == ~last.foreign

\* C3: a token never passes validation after its deadline, issue time plus one
\* hour.  (Violated by secure-server.js while the timer callback is late.)
C3_ExpiredNeverValidates == ~last.late

\* C4 as stated: validating a consumed token again fails with AlreadyUsed.
C4_AlwaysAlreadyUsed ==
    last.op = "validate" /\ last.usedBefore /\ last.result # "Missing"
        => last.result = "AlreadyUsed"

\* C4 amended: validating a consumed token again fails; with AlreadyUsed while
\* the token is still in the table, with UnknownToken once a sweep (the issue of
\* a token, or an earlier failed validation of this one) has removed it.
C4_UsedOrSwept ==
    last.op = "validate" /\ last.usedBefore /\ last.result # "Missing"
        => last.result = IF last.sweptBefore THEN "UnknownToken" ELSE "AlreadyUsed"

\* A consumed token, swept by the issue of another one, is validated again.
C4_Witness ==
    /\ last.op = "validate"
    /\ last.usedBefore
    /\ last.sweptBefore
    /\ last.result = "UnknownToken"
    /\ \E t \in DOMAIN okCount : okCount[t] = 1 /\ t \notin DOMAIN csrfTokens
    /\ \E t \in DOMAIN csrfTokens : okCount[t] = 0

\* What C5 asks of the request handed to the provider.
Conforms(req) ==
    /\ Len(req.text) > 0
    /\ Len(req.text) <= MaxTextLength
    /\ Trim(StripTags(StripScripts(req.text))) = req.text
    /\ req.voice \in allowedVoices
    /\ ~req.speakingRate.nan
    /\ req.speakingRate.n >= SpeedMin
    /\ req.speakingRate.n <= SpeedMax
    /\ validateInputApiKey(req.apiKey)

conforms ==
    [v \in {"secure-server", "server"} |-> [b \in BodyNames |-> Conforms(providerRequest[v][b])]]

\* C5: every request in the hands of the provider passed the CSRF check and
\* carries a sanitized text of 1..5000 characters, an allowed voice, a speed in
\* [0.25, 4.0] and no ill-formed credential.  (Violated by server.js.)
C5_OnlyValidatedForwarded ==
    \A i \in DOMAIN pending :
        pending[i] # Idle => pending[i].token # 0 /\ conforms[variant][pending[i].body]

\* C6: a request that carries a consumed token is answered 403 and not
\* forwarded, and no two requests in the hands of the provider carry the same
\* token.
C6_ReplayRejected ==
    /\ last.op \in {"validate", "synthesize"} /\ last.usedBefore
           => last.status = 403 /\ ~last.forwarded
    /\ \A i, j \in DOMAIN pending :
           i # j /\ pending[i] # Idle /\ pending[j] # Idle
               => pending[i].token # pending[j].token

\* The only token issued is replayed while the request that consumed it is
\* still waiting for the provider.
C6_Witness ==
    /\ last.op = "synthesize"
    /\ last.usedBefore
    /\ last.status = 403
    /\ nextToken = 2
    /\ \E i \in DOMAIN pending : pending[i] # Idle /\ pending[i].token = 1

\* The timestamps of reqs that are younger than the window.
Live(reqs, clock, window) == Cardinality({i \in DOMAIN reqs : clock - reqs[i] < window})

\* C7: the timestamps held that are younger than the window are at most
\* maxRequests, and they are as many as the admissions of the window: none is
\* lost and none is counted twice, requests in flight or not.
C7_WindowBound ==
    /\ variant = "RateLimiter"
           => /\ Live(requests, now, windowMs) <= maxRequests
              /\ Live(requests, now, windowMs) = LiveAdmissions(now, windowMs)
    /\ variant = "RateLimitTracker"
           => /\ Live(requests, now, timeWindow) <= trackerMaxRequests
              /\ Live(requests, now, timeWindow) = LiveAdmissions(now, timeWindow)

\* The window is full, requests are in flight, and one more was refused.
C7_Witness ==
    /\ variant = "RateLimitTracker"
    /\ Live(requests, now, timeWindow) = trackerMaxRequests
    /\ fetching = MaxFetches
    /\ rateLast.op = "check"
    /\ ~rateLast.admitted

\* C8: a check is admitted exactly when fewer than maxRequests admissions lie
\* in the window that ends at the check, and an admitted check is recorded.
\* So the first maxRequests checks of a window pass, the next fails, and a
\* check passes again once the window has elapsed since those admissions.
C8_SlidingWindow ==
    variant = "RateLimiter" /\ rateLast.op = "check"
        => /\ rateLast.admitted = (rateLast.liveBefore < maxRequests)
           /\ rateLast.admitted => rateLast.held = rateLast.liveBefore + 1
           /\ ~rateLast.admitted => rateLast.held = rateLast.liveBefore

\* maxRequests requests were admitted at 0, and a check made when their window
\* has elapsed is admitted on an empty window.
C8_Witness ==
    /\ variant = "RateLimiter"
    /\ rateLast.op = "check"
    /\ rateLast.admitted
    /\ rateLast.liveBefore = 0
    /\ admissions[0] = maxRequests
    /\ now = windowMs

\* getTimeUntilReset() was evaluated by the last call.
ResetEvaluated ==
    /\ variant = "RateLimiter"
    /\ rateLast.op = "reset" \/ (rateLast.op = "check" /\ ~rateLast.admitted)

\* seconds is ms / 1000 rounded up.
RoundedUp(seconds, ms) == (seconds - 1) * MsPerSecond < ms /\ ms <= seconds * MsPerSecond

\* C9 as stated: 0 when the window holds fewer than maxRequests live
\* timestamps, else the seconds, rounded up, until the oldest one leaves.
C9_ZeroUnderCapacity ==
    ResetEvaluated =>
        IF rateLast.liveBefore < maxRequests THEN rateLast.reset = 0
        ELSE RoundedUp(rateLast.reset, windowMs - rateLast.age)

\* C9 amended: 0 when no timestamp is held or the oldest one held has left the
\* window, else the seconds, rounded up, until the oldest one leaves, whether
\* the window is full or not.
C9_UntilOldestLeaves ==
    ResetEvaluated =>
        IF rateLast.held = 0 \/ rateLast.age >= windowMs THEN rateLast.reset = 0
        ELSE RoundedUp(rateLast.reset, windowMs - rateLast.age)

\* One request is held, far from capacity, and the answer is 60 seconds.
C9_Witness ==
    /\ ResetEvaluated
    /\ rateLast.held = 1
    /\ rateLast.liveBefore = 1
    /\ rateLast.age = 1
    /\ rateLast.reset * MsPerSecond = windowMs

\* C10: when generateSpeech is refused by the limiter, getTimeUntilReset()
\* evaluated at the instant of the refusal is positive.
C10_PositiveOnReject ==
    variant = "RateLimiter" /\ rateLast.op = "check" /\ ~rateLast.admitted /\ rateLast.sameInstant
        => rateLast.reset > 0

\* The 11th request is refused one millisecond before the window of the
\* first ends.
C10_Witness ==
    /\ variant = "RateLimiter"
    /\ rateLast.op = "check"
    /\ ~rateLast.admitted
    /\ rateLast.liveBefore = maxRequests
    /\ rateLast.sameInstant
    /\ rateLast.age = windowMs - 1
    /\ rateLast.reset = 1

\* C11 as stated: a load made after save(k) has completed, with no clear, no
\* key regeneration and less than the expiry window elapsed since that save,
\* returns k.
C11_RoundTrip ==
    vaultLast.op = "load" /\ vaultLast.roundTrip => vaultLast.exact

\* C12 as stated: a load made more than the expiry window after the save of
\* the stored blob returns null and leaves no blob in storage.
C12_ExpiredNeverDecrypts ==
    vaultLast.op = "load" /\ vaultLast.aged =>
        vaultLast.result = "null" /\ ~vaultLast.blobAfter

\* C13 as stated: after a load has returned null because the blob had
\* expired, a save(k) followed by a load returns k.
C13_WorksAfterExpiry ==
    vaultLast.op = "load" /\ vaultLast.roundTrip /\ vaultLast.afterExpiry => vaultLast.exact

\* C14: a load whose decryption fails, because the stored blob is altered or
\* was encrypted under another key than the one the load holds, returns null
\* and leaves no stored entry; it does not throw.
C14_FailureGivesNull ==
    vaultLast.op = "load" /\ vaultLast.failed =>
        vaultLast.result = "null" /\ ~vaultLast.blobAfter

\* A load of an altered blob has ended, in the vault of api-key-encryption.js.
C14_Witness ==
    /\ variant = "vault-idb"
    /\ vaultLast.op = "load"
    /\ vaultLast.failed
    /\ ~vaultLast.keyMismatch
    /\ vaultLast.result = "null"
    /\ sessionStorage.blob = NoBlob

\* No method of the vault is inside getEncryptionKey().
NoKeyAcquisition ==
    \A c \in BagToSet(calls) : c.pc \notin {"importKey", "generateKey", "exportKey"}

\* C15 as stated: the key handle in memory and the key material kept for the
\* session denote the same key, also after overlapping calls of
\* getEncryptionKey; checked when no call of it is under way.
C15_OneActiveKey ==
    variant = "vault-fixes" /\ NoKeyAcquisition /\ encryptionKey # 0 =>
        sessionStorage.cryptoKey = encryptionKey

\* C16: a load of a blob with a key that is not the one the blob was encrypted
\* under (a later key, or none) returns null: it never returns a secret and
\* does not throw.
C16_OtherKeyGivesNull ==
    vaultLast.op = "load" /\ vaultLast.keyMismatch => vaultLast.result = "null"

\* The load that ended last decrypted the blob it had read with the key that
\* a later save has put in its place: no method has ended since, and the key
\* is still there.
C16_Witness ==
    /\ variant = "vault-idb"
    /\ vaultLast.op = "load"
    /\ vaultLast.keyMismatch
    /\ vaultLast.result = "null"
    /\ indexedDB.key = 2
    /\ sessionStorage.blob = NoBlob

\* C17 as stated: a clear returns to its caller and leaves no stored blob,
\* also when nothing is stored and when it follows another clear.
C17_ClearSucceeds ==
    vaultLast.op = "clear" =>
        vaultLast.result \in {"done", "true"} /\ ~vaultLast.blobAfter

\* C18 as stated: the raw material of the key is in no store that other
\* components can read: sessionStorage, readable by every script of the page,
\* holds no raw key.
C18_NoRawKeyExposed ==
    sessionStorage.cryptoKey = 0

\* C19 as stated: a request that passes the CSRF check and is rejected by a
\* later check (400) leaves the token it carried unconsumed.
C19_RejectedKeepsToken ==
    last.op = "synthesize" /\ last.status = 400 => ~last.consumed

\* C20 as stated: the response to a request rejected for an already-used, an
\* expired or a session-mismatched token is the response to a request
\* rejected for an unknown token: one 403 response for the four cases.
C20_GenericRejection ==
    /\ variant = "SecurityUtils"
    /\ last.op = "validate"
    /\ last.result \in {"UnknownToken", "AlreadyUsed", "Expired", "SessionMismatch"}
    => /\ last.status = 403
       /\ last.body = csrfProtectionBody("UnknownToken")

\* ------------------------------------------------------------------- C21
\* The request of the claim, read literally: the raw text is a non-empty
\* string of at most 5000 characters, the voice is allow-listed and the speed
\* lies within [0.25, 4.0].
LiteralRequest(b) ==
    /\ Bodies[b].text.t = "string"
    /\ Len(Bodies[b].text.s) >= 1
    /\ Len(Bodies[b].text.s) <= MaxTextLength
    /\ VoiceOf(b) \in allowedVoices
    /\ SpeedOf(b).t = "number"
    /\ SpeedOf(b).n >= SpeedMin
    /\ SpeedOf(b).n <= SpeedMax

\* The text that is left of the body once the server has sanitized it.
SanitizedText(v, b) ==
    IF v = "improved-server" THEN serverSanitizeText(Bodies[b].text)
    ELSE Trim(StripTags(StripScripts(Bodies[b].text.s)))

\* The same request, with a text that is non-empty after the sanitization
\* and without a credential of its own.
SanitizedRequest(v, b) ==
    /\ LiteralRequest(b)
    /\ SanitizedText(v, b) # <<>>
    /\ Bodies[b].apiKey = Undefined

\* The token the request carries is valid, unused, unexpired and of the
\* sender's session; the server with express-validator asks for none.
TokenInOrder(r) == variant = "improved-server" \/ r.fresh

\* A step that handles a synthesis request.
RequestStep == last'.op = "synthesize" /\ (last' # last \/ pending' # pending)

\* The step calls the provider exactly once, with the body of the request.
OneCall ==
    \E i \in 1..MaxInflight :
        /\ pending[i] = Idle
        /\ pending'[i] # Idle
        /\ pending'[i].body = last'.input
        /\ \A j \in 1..MaxInflight \ {i} : pending'[j] = pending[j]

AudioIsReturned ==
    last.op = "response" /\ last.result = "audio"
    => last.status = 200 /\ last.body = <<"audioContent">>

C22_OwnKindPerCode ==
    last.op = "response" /\ last.result \in {"code3", "code7", "code8", "code14"}
    => /\ last.status # responseStatus("noAudio")
       /\ Head(last.body) # responseMessage(variant, "noAudio")

\* ------------------------------------------------------------------- C29
\* The fields of a response that carry internal detail: details is the
\* message of the error (the provider's, when the provider call failed) or
\* the list of the failed rules, stack the stack trace.
InternalDetail(body) == \E i \in 1..Len(body) : body[i] \in {"details", "stack"}

ErrorResponse(r) == r.op \in {"synthesize", "response"} /\ r.status >= 400

C30_FirstFailingCondition ==
    variant = "SecurityUtils" /\ last.op = "validate" /\ last.result # "Missing"
    => last.result = IF ~last.held THEN "UnknownToken"
                     ELSE IF last.usedBefore THEN "AlreadyUsed"
                     ELSE IF last.pastExpiry THEN "Expired"
                     ELSE IF last.otherSession THEN "SessionMismatch"
                     ELSE "ok"

\* A held token that was used, is past its expiry and is presented with
\* another session has been rejected as AlreadyUsed.
C30_Witness ==
    /\ variant = "SecurityUtils"
    /\ last.op = "validate"
    /\ last.result = "AlreadyUsed"
    /\ last.held
    /\ last.usedBefore
    /\ last.pastExpiry
    /\ last.otherSession

\* A held, unused token that is past its expiry and is presented with
\* another session has been rejected as Expired.
C30_ExpiredBeforeSession ==
    /\ variant = "SecurityUtils"
    /\ last.op = "validate"
    /\ last.result = "Expired"
    /\ last.held
    /\ ~last.usedBefore
    /\ last.pastExpiry
    /\ last.otherSession

\* ------------------------------------------------------------------- C28
\* C28 as stated: every request that has been handed to the provider gets its
\* response, whether or not the provider answers.
C28_AdmittedIsAnswered ==
    \A i \in 1..MaxInflight : (pending[i] # Idle) ~> (pending[i] = Idle)

\* ------------------------------------------------------------------- C23
\* C23 as stated: each of the three sanitizers, applied to what it returned,
\* returns the same text again.
C23_Idempotent ==
    /\ pure.fn = "sanitizeText" => sanitizeText(pure.out) = pure.out
    /\ pure.fn = "server sanitizeText" => Str(serverSanitizeText(pure.out)) = pure.out
    /\ pure.fn = "validateInput.text" /\ pure.out.valid
       => validateInputText(Str(pure.out.sanitized)).sanitized = pure.out.sanitized

\* The part of C23 that holds: the sanitizer of the server with
\* express-validator and that of secure-server.js are idempotent.
C23_ServerSanitizersIdempotent ==
    /\ pure.fn = "server sanitizeText" => Str(serverSanitizeText(pure.out)) = pure.out
    /\ pure.fn = "validateInput.text" /\ pure.out.valid
       => validateInputText(Str(pure.out.sanitized)).sanitized = pure.out.sanitized

\* ------------------------------------------------------------------- C24
\* The text holds "<script", in any case.
HoldsScriptOpen(chars) ==
    \E i \in 1..Len(chars) : MatchAt(chars, i, <<"<", "s", "c", "r", "i", "p", "t">>)

\* The text holds a <script>...</script> construct: an opening and, behind
\* it, a closing tag.
HoldsScriptElement(chars) ==
    \E i \in 1..Len(chars) :
        /\ MatchAt(chars, i, <<"<", "s", "c", "r", "i", "p", "t", ">">>)
        /\ \E j \in (i + 8)..Len(chars) : IsScriptClose(chars, j)

\* C24 as stated: what sanitizeText of security-fixes.js and validateInput.text
\* of secure-server.js return for a text with a <script>...</script>
\* construct holds no "<script".
C24_NoScriptOpenLeft ==
    pure.arg.t = "string" /\ HoldsScriptElement(pure.arg.s)
    => /\ pure.fn = "sanitizeText" => ~HoldsScriptOpen(pure.out.s)
       /\ pure.fn = "validateInput.text" => ~HoldsScriptOpen(pure.out.sanitized)

\* ------------------------------------------------------------------- C25
\* C25 as stated: for an argument that is no string the sanitizers return the
\* empty string and the credential validators an explicit invalid result.
C25_NonStringRejected ==
    pure.arg.t # "string"
    => /\ pure.fn \in {"sanitizeText", "sanitizeInput"} => pure.out = Str(<<>>)
       /\ pure.fn \in {"validateApiKey", "validateInput.apiKey"}
          => ~pure.out.valid /\ pure.out.error # ""

\* The part of C25 that holds: InputSanitizer of security-fixes.js.
C25_InputSanitizerRejects ==
    pure.arg.t # "string"
    => /\ pure.fn = "sanitizeText" => pure.out = Str(<<>>)
       /\ pure.fn = "validateApiKey" => ~pure.out.valid /\ pure.out.error # ""

\* ------------------------------------------------------------------- C26
\* The verdict the claim asks for: valid exactly for a non-empty string with
\* the prefix, a length in the range and the character class; else the
\* reason of the first failing check.
ClaimedVerdict(v) ==
    IF v.t # "string" \/ v.s = <<>> THEN Verdict(FALSE, "invalid")
    ELSE IF ~StartsWithAIza(v.s) THEN Verdict(FALSE, "format")
    ELSE IF Len(v.s) < ApiKeyMinLength \/ Len(v.s) > ApiKeyMaxLength
    THEN Verdict(FALSE, "length")
    ELSE IF \E i \in 1..Len(v.s) : v.s[i] \notin ApiKeyChars THEN Verdict(FALSE, "characters")
    ELSE Verdict(TRUE, "")

\* C26 as stated: each of the three validators returns valid exactly for a
\* well-formed key, and otherwise the reason of the first failing check in
\* the order non-empty, prefix, length, character class.
C26_ExactVerdict ==
    pure.fn \in {"validateApiKey", "validateInput.apiKey", "server validateApiKey"}
    => pure.out = ClaimedVerdict(pure.arg)

\* The part of C26 that holds: InputSanitizer.validateApiKey.
C26_InputSanitizerExact ==
    pure.fn = "validateApiKey" => pure.out = ClaimedVerdict(pure.arg)

\* ------------------------------------------------------------------- C27
\* C27: every load of the credential that generateSpeech awaits returns, and
\* the synthesis request is then sent; when the load failed (the decryption
\* was rejected, or the blob was missing or found expired, so that the load
\* returned null) the request carries no credential.
C27_FailureDoesNotBlock ==
    vaultLast.op = "load"
    => /\ vaultLast.sent \in {"withoutKey", "withKey"}
       /\ vaultLast.failed \/ vaultLast.result = "null" => vaultLast.sent = "withoutKey"

\* A load of security-fixes.js has found an expired blob, and the request has
\* been sent without a credential.
C27_Witness ==
    /\ variant = "vault-fixes"
    /\ vaultLast.op = "load"
    /\ vaultLast.aged
    /\ vaultLast.result = "null"
    /\ vaultLast.sent = "withoutKey"

\* A load whose decryption was rejected has ended, and the request has been
\* sent without a credential.
C27_AfterRejectedDecryption ==
    /\ vaultLast.op = "load"
    /\ vaultLast.failed
    /\ vaultLast.sent = "withoutKey"

\* ------------------------------------------------------------------- C35
\* C35: a request whose token is rejected with SessionMismatch leaves the
\* table of tokens as it was, and the same token presented at that time with
\* the session it is bound to is accepted.
C35_MismatchKeepsToken ==
    [][\A t \in 1..MaxTokens, s \in Sessions :
          /\ csrfProtectionPOST(t, s)
          /\ validateCSRFTokenResult(csrfTokens, t, s, now) = "SessionMismatch"
          => /\ csrfTokens' = csrfTokens
             /\ validateCSRFTokenResult(csrfTokens', t, issuedTo[t], now') = "ok"]_vars

\* A token has been rejected with SessionMismatch and is in the table, unused
\* and within its lifetime.
C35_Witness ==
    /\ variant = "SecurityUtils"
    /\ last.op = "validate"
    /\ last.result = "SessionMismatch"
    /\ last.held
    /\ last.otherSession
    /\ \E t \in DOMAIN csrfTokens :
           /\ ~csrfTokens[t].used
           /\ ~(now > csrfTokens[t].expiry)
           /\ okCount[t] = 0

\* ------------------------------------------------------------------- C37
\* C37: a check that refuses leaves in this.requests the timestamps younger
\* than the window, in their order, and nothing else: no timestamp is added,
\* and the oldest one that counts is the same as before.
C37_DeniedAddsNothing ==
    [][/\ (\E proceeds \in BOOLEAN, later \in RateInstants : generateSpeech(proceeds, later))
          /\ ~canMakeRequest(requests, now)
          => /\ requests' = Evict(requests, now, windowMs)
             /\ Oldest(requests') = Oldest(Evict(requests, now, windowMs))
       /\ secureRequest /\ ~trackerCanMakeRequest(requests, now)
          => /\ requests' = Evict(requests, now, timeWindow)
             /\ Oldest(requests') = Oldest(Evict(requests, now, timeWindow))]_vars

\* The tracker has refused a request one millisecond after the first
\* admission, and holds the admitted requests alone.
C37_Witness ==
    /\ variant = "RateLimitTracker"
    /\ rateLast.op = "check"
    /\ ~rateLast.admitted
    /\ now = 1
    /\ Len(requests) = trackerMaxRequests
    /\ admissions[0] + admissions[1] = trackerMaxRequests
    /\ admissions[0] > 0

\* ------------------------------------------------------------------- C32
\* The number of times the instant t is recorded in the list.
Recorded(reqs, t) == Cardinality({i \in DOMAIN reqs : reqs[i] = t})

\* The window of the limiter that runs.
WindowOf(v) == IF v = "RateLimiter" THEN windowMs ELSE timeWindow

\* C32: no step of a limiter or of the request it admitted (the refusal of
\* its text, the answer or the failure of fetch) removes a recorded timestamp
\* that is younger than the window.
C32_AdmissionStaysCounted ==
    [][\A t \in RateInstants :
          t <= now' /\ now' - t < WindowOf(variant)
          => Recorded(requests', t) >= Recorded(requests, t)]_vars

\* The request admitted at 0 is over, and in the last millisecond of its
\* window its timestamp is still held.
C32_Witness ==
    /\ variant = "RateLimiter"
    /\ admissions[0] = 1
    /\ fetching = 0
    /\ now = windowMs - 1
    /\ requests = <<0>>

\* ------------------------------------------------------------------- C33
\* C33 as stated: the expiry timer of a save, when it runs, leaves in place a
\* stored blob that is younger than the expiry window.
C33_TimerSparesYoungBlob ==
    [][\A t \in VaultInstants :
          /\ vaultTimer(t)
          /\ sessionStorage.blob # NoBlob
          /\ now - sessionStorage.blob.timestamp < vaultExpiry
          => sessionStorage'.blob = sessionStorage.blob]_vars

\* ------------------------------------------------------------------- C34
\* The key a later load of the session finds in storage: the key material in
\* sessionStorage, or the key in the database.
StoredKey ==
    IF variant = "vault-fixes" THEN sessionStorage.cryptoKey ELSE indexedDB.key

\* C34 as stated: when every save that was started has completed and the
\* last of them has stored its blob, the blob decrypts under the key that is
\* stored with it.  The page has not been reloaded since (the handle of
\* security-fixes.js is still set), so no save was cut off.
C34_StoredKeyDecrypts ==
    /\ calls = EmptyBag
    /\ vaultLast.op = "save"
    /\ vaultLast.result = "true"
    /\ saved.intact
    /\ StoredKey # 0
    /\ variant = "vault-fixes" => encryptionKey # 0
    => decrypt(sessionStorage.blob, StoredKey) # "reject"

\* ------------------------------------------------------------------- C38
\* The format check of the client that ran last accepted its argument.
ClientAccepted ==
    \/ pure.fn = "validateApiKey" /\ pure.out.valid
    \/ pure.fn = "validateApiKeyFormat" /\ pure.out.valid

\* C38 as stated: a credential that a format check of the client accepts is
\* accepted by the format check of each server.
C38_ClientAcceptedPassesServer ==
    ClientAccepted
    => /\ validateInputApiKeyResult(pure.arg).valid
       /\ serverValidateApiKey(pure.arg)

\* ------------------------------------------------------------------- C36
\* C36 as stated: once the middleware has accepted a POST request of the
\* client, the token the client will attach to its next one is a token the
\* server holds, not yet used and bound to the session the request will name.
C36_NextTokenIsFresh ==
    /\ client.pc = "ready"
    /\ client.posts > 0
    /\ last.op = "validate"
    /\ last.result = "ok"
    => /\ client.csrfToken \in DOMAIN csrfTokens
       /\ ~csrfTokens[client.csrfToken].used
       /\ csrfTokens[client.csrfToken].sessionId = EffectiveSession

\* ------------------------------------------------------------------- C31
\* C31 as stated, for the two servers with a gate: a synthesis request whose
\* token the server does not hold is answered 403, whatever its body is.  The
\* server with express-validator holds no token at all.
C31_InvalidTokenIs403 ==
    /\ variant \in {"secure-server", "improved-server"}
    /\ last.op = "synthesize"
    /\ ~last.held
    => last.status = 403

====
